---- MODULE Spec2Model ----
(***************************************************************************)
(* A model of the newsletter generator: the task store and the task        *)
(* lifecycle around one pipeline run (newsletter.api), the pipeline        *)
(* orchestration per URL (newsletter.pipeline.builder), the manifest       *)
(* loader (newsletter.io.url_loader), the metadata extractor's retry loop  *)
(* (newsletter.metadata.extractor), the topic classifier's provider cache  *)
(* (newsletter.classification.topic_classifier), the batched subtopic      *)
(* classifier (newsletter.classification.subtopic_classifier), the content *)
(* fetcher (newsletter.services.jina_client), the Markdown renderer        *)
(* (newsletter.pipeline.markdown_renderer) and the status stream           *)
(* (newsletter.api.app).                                                   *)
(*                                                                         *)
(* The specifications share the variables:                                 *)
(*   Spec           tasks run by an arbitrary PipelineExecutor             *)
(*   SpecPipeline   one task run by DefaultPipelineExecutor, URL by URL    *)
(*   SpecExtract    MetadataExtractor._request_metadata on one article     *)
(*   SpecClassify   TopicClassifier.classify called repeatedly             *)
(*   SpecStream     the status stream and status queries beside one task   *)
(*   SpecStreamFair SpecStream with the stream's generator always resumed  *)
(*   SpecStore      the TaskStore operations, one step each, any order     *)
(*   SpecStoreConc  the TaskStore operations of concurrent threads         *)
(*   SpecLoad       load_urls reading one manifest line by line            *)
(*   SpecAssign     SubtopicClassifier.assign_subtopics on a list of       *)
(*                  entries                                                *)
(*   SpecFetch      JinaClient.fetch called repeatedly on one client,      *)
(*                  request by request                                     *)
(*   SpecRender     MarkdownRenderer.render of one list of entries         *)
(*   SpecRules      TopicClassifier.classify called once on any article    *)
(*   SpecRepos      the repository references of one extract call          *)
(*   SpecTwin       both TaskStore implementations given the same calls    *)
(*   SpecDispatch   generate_newsletter step by step, then the worker      *)
(*   SpecExec       DefaultPipelineExecutor.execute and its manifest file  *)
(***************************************************************************)
EXTENDS Integers, Sequences, FiniteSets, TLC

VARIABLES
    storeKind,   \* which TaskStore implementation is wired: "memory" | "sqlite"
    tasks,       \* the store's rows: task id -> TaskRecord (NoTask when absent)
    pc,          \* position of the worker running execute_pipeline_task, per task
    jobUrls,     \* len(urls) handed to the dispatcher, per task
    manifest,    \* the lines of the manifest the pipeline loads
    llmConfigured, \* whether the classifiers were built with a completion client
    loaded,      \* UrlLoadResult of load_urls(manifest)
    cursor,      \* index into loaded.entries of the URL being processed (SpecLoad: the
                 \* number of manifest lines load_urls has consumed)
    stage,       \* position inside the loop body of NewsletterPipeline.run
    article,     \* the current URL's fetched / classified article
    result,      \* the PipelineResult being accumulated
    runState,    \* "idle" | "running" | "done" (run returned) | "raised"
    log,         \* history: the stage events of the run, in order
    exMax,       \* ExtractionConfig.max_attempts of the extractor
    exAttempt,   \* loop variable `attempt` of _request_metadata (0 before the loop)
    exCalls,     \* number of client.complete calls made so far
    exReplies,   \* history: the reply kinds received, in order
    exState,     \* "idle" | "looping" | "returned" | "raised"
    exError,     \* the class of the exception _request_metadata raised ("none" before)
    tcCache,     \* TopicClassifier._cache: URL -> cached topic ("None" when no entry)
    tcCalls,     \* number of provider calls the topic classifier made, per URL
    wPc,         \* position of the status stream: "none" | "rejected" | "polling" |
                 \* "ending" | "closed"
    wLast,       \* last_payload of event_generator (NoPayload for "")
    wEvents,     \* history: the events the stream has yielded, in order
    wTerminalRead, \* a poll of the stream has returned a terminal status
    wLateRead,   \* the stream has read the store after such a poll
    wPolled,     \* history: the payloads the stream polled (changes only)
    obs,         \* history: the statuses successive status queries saw (changes only)
    lock,        \* InMemoryTaskStore._lock: "free" or the thread holding it
    thr,         \* per caller of the store: the operation it is in or made last, and
                 \* what the store handed it
    versions,    \* history: each task's record as the last completed store operation
                 \* on it left it
    jina,        \* the JinaClient and the fetch call it is in: settings, client state,
                 \* loop position, the responses received, how the call ended, and
                 \* (history) how often the client dropped its Authorization header
    rendered,    \* the document MarkdownRenderer.render returned, block by block
                 \* (<<>> before the call)
    repoCall,    \* the repository part of one MetadataExtractor.extract: the provider's
                 \* candidates, the URLs in the article text, and the record's
                 \* repositories once extract returned
    twin,        \* a SQLiteTaskStore given the same calls as the InMemoryTaskStore whose
                 \* rows are `tasks`: its rows, and what the last call returned from
                 \* either store
    executor     \* per worker process, its call of DefaultPipelineExecutor.execute: the
                 \* number of URLs, the position in execute, the temporary manifest
                 \* file of the call and how the call ended

taskVars == <<storeKind, tasks, pc, jobUrls>>
pipeVars == <<manifest, llmConfigured, loaded, cursor, stage, article, result, runState, log>>
exVars == <<exMax, exAttempt, exCalls, exReplies, exState, exError>>
tcVars == <<tcCache, tcCalls>>
streamVars == <<wPc, wLast, wEvents, wTerminalRead, wLateRead, wPolled, obs>>
storeVars == <<lock, thr, versions>>
ioVars == <<jina, rendered, repoCall, twin, executor>>
auxVars == <<tcVars, streamVars, storeVars, ioVars>>
vars == <<storeKind, tasks, pc, jobUrls, manifest, llmConfigured, loaded, cursor, stage,
          article, result, runState, log, exMax, exAttempt, exCalls, exReplies, exState,
          exError, tcCache, tcCalls, wPc, wLast, wEvents, wTerminalRead, wLateRead, wPolled,
          obs, lock, thr, versions, jina, rendered, repoCall,
          twin, executor>>

----------------------------------------------------------------------------
(* Bounds of the model.                                                    *)

\* largest number of URLs in one generate request
MaxUrls == 2
\* largest length of each list of a stub executor's PipelineResult
MaxCount == 2
\* largest number of manifest lines
MaxLines == 3
\* largest configured max_attempts explored
MaxAttemptsBound == 4
\* largest number of provider calls the topic classifier makes for one URL
MaxCalls == 2

TaskIds == {"t1", "t2"}

Min(a, b) == IF a <= b THEN a ELSE b
Max(a, b) == IF a >= b THEN a ELSE b

----------------------------------------------------------------------------
(* newsletter.api.models / newsletter.api.task_store                       *)

TaskProgress(total, processed, failed) ==
    [total_urls |-> total, processed |-> processed, failed |-> failed]

\* the value of a row the store does not hold
NoTask ==
    [status |-> "absent", progress |-> TaskProgress(0, 0, 0), completed_at |-> "unset",
     markdown_content |-> "null", metadata |-> "null", error |-> "null"]

\* TaskStore.create: the record inserted for a new task
NewRecord(url_count) ==
    [status |-> "pending", progress |-> TaskProgress(url_count, 0, 0),
     completed_at |-> "unset", markdown_content |-> "null", metadata |-> "null",
     error |-> "null"]

\* the updates mark_processing passes to _update (SQLite also clears completed_at)
MarkProcessingRec(kind, rec) ==
    IF kind = "sqlite"
    THEN [rec EXCEPT !.status = "processing", !.completed_at = "unset"]
    ELSE [rec EXCEPT !.status = "processing"]

\* mutant: mark_completed stores the document without its metadata
MarkCompletedRecNoMetadata(rec, progress) ==
    [rec EXCEPT !.status = "completed", !.markdown_content = "doc",
                !.progress = progress, !.completed_at = "set", !.error = "null"]

\* the updates mark_completed passes to _update
MarkCompletedRec(rec, progress) ==
    [rec EXCEPT !.status = "completed", !.markdown_content = "doc", !.metadata = "meta",
                !.progress = progress, !.completed_at = "set", !.error = "null"]

\* mutant: a failed task is put back to pending
MarkFailedRecRequeue(rec, error, progress) ==
    [rec EXCEPT !.status = "pending", !.error = error, !.progress = progress]

\* the updates mark_failed passes to _update (progress is always given by the service)
MarkFailedRec(rec, error, progress) ==
    [rec EXCEPT !.status = "failed", !.error = error, !.completed_at = "set",
                !.progress = progress]

\* _update: raises KeyError for an unknown id, else stores the updated row
UpdateRow(t, rec) ==
    /\ tasks[t].status # "absent"
    /\ tasks' = [tasks EXCEPT ![t] = rec]

----------------------------------------------------------------------------
(* newsletter.api.progress / newsletter.api.service                        *)

\* a PipelineResult seen through the lengths build_progress reads
ResultCounts(success, skipped, failed, invalid) ==
    [success |-> success, skipped |-> skipped, failed |-> failed, invalid |-> invalid]

\* mutant: failed is not capped by the remaining URLs
build_progress_uncapped(total, res) ==
    TaskProgress(total, Min(res.success + res.skipped, total), res.failed + res.invalid)

build_progress(total, res) ==
    LET processed == Min(res.success + res.skipped, total)
        remaining == Max(total - processed, 0)
        failed == Min(res.failed + res.invalid, remaining)
    IN TaskProgress(total, processed, failed)

\* mutant: the failure is recorded with the progress the task had
FailureProgressNone(n) == TaskProgress(n, 0, 0)

\* the progress process_pipeline_failure records
FailureProgress(n) == TaskProgress(n, 0, n)

\* mutant: the except clause swallows the error without recording it
process_pipeline_failure_swallow(t, error) ==
    UNCHANGED tasks

\* process_pipeline_failure: mark_failed with the stringified error
process_pipeline_failure(t, error) ==
    UpdateRow(t, MarkFailedRec(tasks[t], error, FailureProgress(jobUrls[t])))

\* process_pipeline_result, when nothing in it raises: mark_completed
process_pipeline_result(t, res) ==
    UpdateRow(t, MarkCompletedRec(tasks[t], build_progress(jobUrls[t], res)))

\* every PipelineResult a PipelineExecutor stub may return, by its list lengths
StubResults ==
    {ResultCounts(a, b, c, d) : a \in 0..MaxCount, b \in 0..MaxCount,
                                c \in 0..MaxCount, d \in 0..MaxCount}

\* generate_newsletter: create the record (pending), then dispatch the job
Generate(t, n) ==
    /\ tasks[t].status = "absent"
    /\ pc[t] = "none"
    /\ tasks' = [tasks EXCEPT ![t] = NewRecord(n)]
    /\ jobUrls' = [jobUrls EXCEPT ![t] = n]
    /\ pc' = [pc EXCEPT ![t] = "queued"]
    /\ UNCHANGED storeKind

\* execute_pipeline_task, first statement: task_store.mark_processing(task_id)
WorkerStart(t) ==
    /\ pc[t] = "queued"
    /\ UpdateRow(t, MarkProcessingRec(storeKind, tasks[t]))
    /\ pc' = [pc EXCEPT ![t] = "running"]
    /\ UNCHANGED <<storeKind, jobUrls>>

\* executor.execute raised: the first except clause records the failure and returns
ExecuteRaises(t) ==
    /\ pc[t] = "running"
    /\ process_pipeline_failure(t, "executor error")
    /\ pc' = [pc EXCEPT ![t] = "returned"]
    /\ UNCHANGED <<storeKind, jobUrls>>

\* executor.execute returned res and process_pipeline_result stored it
PersistOk(t, res) ==
    /\ pc[t] = "running"
    /\ process_pipeline_result(t, res)
    /\ pc' = [pc EXCEPT ![t] = "returned"]
    /\ UNCHANGED <<storeKind, jobUrls>>

\* process_pipeline_result raised before the row was written (the renderer, or the
\* store before its commit): the second except clause records the failure
PersistRaisesEarly(t) ==
    /\ pc[t] = "running"
    /\ process_pipeline_failure(t, "persist error")
    /\ pc' = [pc EXCEPT ![t] = "returned"]
    /\ UNCHANGED <<storeKind, jobUrls>>

\* SQLiteTaskStore._update commits the UPDATE and then re-reads the row with get();
\* the re-read raises after the commit, so mark_completed raises with the row written
PersistCommitsThenRaises(t, res) ==
    /\ pc[t] = "running"
    /\ storeKind = "sqlite"
    /\ process_pipeline_result(t, res)
    /\ pc' = [pc EXCEPT ![t] = "persist_raised"]
    /\ UNCHANGED <<storeKind, jobUrls>>

\* the second except clause, reached from the raise after the commit
HandlePersistFailure(t) ==
    /\ pc[t] = "persist_raised"
    /\ process_pipeline_failure(t, "persist error")
    /\ pc' = [pc EXCEPT ![t] = "returned"]
    /\ UNCHANGED <<storeKind, jobUrls>>

----------------------------------------------------------------------------
(* Initial values of the parts a specification does not use.               *)

PipeIdle ==
    /\ manifest = <<>>
    /\ llmConfigured = FALSE
    /\ loaded = [entries |-> <<>>, invalid_entries |-> <<>>, duplicate_urls |-> <<>>]
    /\ cursor = 0
    /\ stage = "none"
    /\ article = [url |-> [scheme |-> "", host |-> <<>>, path |-> "", query |-> <<>>,
                            frag |-> ""],
                  text |-> {}, topic |-> "None", source |-> "none", subtopics |-> <<>>]
    /\ result = [entries |-> <<>>, invalid_urls |-> <<>>, skipped_urls |-> <<>>,
                 failed_urls |-> <<>>]
    /\ runState = "idle"
    /\ log = <<>>

ExtractIdle ==
    /\ exMax = 0
    /\ exAttempt = 0
    /\ exCalls = 0
    /\ exReplies = <<>>
    /\ exState = "idle"
    /\ exError = "none"

TasksIdle ==
    /\ storeKind = "memory"
    /\ tasks = [t \in TaskIds |-> NoTask]
    /\ pc = [t \in TaskIds |-> "none"]
    /\ jobUrls = [t \in TaskIds |-> 0]

ClassifyIdle ==
    /\ tcCache = <<>>
    /\ tcCalls = <<>>

\* last_payload = "": the payload of no record
NoPayload == [status |-> "", progress |-> TaskProgress(0, 0, 0), error |-> "null"]

StreamIdle ==
    /\ wPc = "none"
    /\ wLast = NoPayload
    /\ wEvents = <<>>
    /\ wTerminalRead = FALSE
    /\ wLateRead = FALSE
    /\ wPolled = <<>>
    /\ obs = <<>>

StoreIdle ==
    /\ lock = "free"
    /\ thr = <<>>
    /\ versions = <<>>

\* no JinaClient constructed
NoClient ==
    [max_retries |-> 0, header |-> FALSE, had_auth_failure |-> FALSE, attempt |-> 0,
     responses |-> <<>>, last_error |-> "None", state |-> "none", raised |-> "none",
     content |-> "none", drops |-> 0]

JinaIdle == jina = NoClient

\* no extract call
NoRepoCall == [candidates |-> <<>>, text |-> <<>>, state |-> "none", repositories |-> <<>>]

\* no second store
NoTwin == [rows |-> <<>>, memory |-> "none", sqlite |-> "none"]

\* the worker processes that call the executor
ExecWorkers == {"w1", "w2"}

\* no call of execute yet
NoCall == [urls |-> 0, pos |-> "idle", file |-> "absent", exit |-> "none"]

NoExecutor == [w \in ExecWorkers |-> NoCall]

IoIdle ==
    /\ JinaIdle
    /\ rendered = <<>>
    /\ repoCall = NoRepoCall
    /\ twin = NoTwin
    /\ executor = NoExecutor

AuxIdle == ClassifyIdle /\ StreamIdle /\ StoreIdle /\ IoIdle

----------------------------------------------------------------------------
(* Spec: tasks created by generate and run by a worker whose executor is   *)
(* any PipelineExecutor (it returns any PipelineResult, or raises).        *)

Init ==
    /\ storeKind \in {"memory", "sqlite"}
    /\ tasks = [t \in TaskIds |-> NoTask]
    /\ pc = [t \in TaskIds |-> "none"]
    /\ jobUrls = [t \in TaskIds |-> 0]
    /\ PipeIdle
    /\ ExtractIdle
    /\ AuxIdle

Next ==
    \/ \E t \in TaskIds, n \in 1..MaxUrls :
         Generate(t, n) /\ UNCHANGED <<pipeVars, exVars, auxVars>>
    \/ \E t \in TaskIds : WorkerStart(t) /\ UNCHANGED <<pipeVars, exVars, auxVars>>
    \/ \E t \in TaskIds : ExecuteRaises(t) /\ UNCHANGED <<pipeVars, exVars, auxVars>>
    \/ \E t \in TaskIds, res \in StubResults :
         PersistOk(t, res) /\ UNCHANGED <<pipeVars, exVars, auxVars>>
    \/ \E t \in TaskIds : PersistRaisesEarly(t) /\ UNCHANGED <<pipeVars, exVars, auxVars>>
    \/ \E t \in TaskIds, res \in StubResults :
         PersistCommitsThenRaises(t, res) /\ UNCHANGED <<pipeVars, exVars, auxVars>>
    \/ \E t \in TaskIds : HandlePersistFailure(t) /\ UNCHANGED <<pipeVars, exVars, auxVars>>

Spec == Init /\ [][Next]_vars

----------------------------------------------------------------------------
(* Claims about the task lifecycle, checked under Spec.                    *)

Terminal(status) == status \in {"completed", "failed"}

StatusRank(status) ==
    CASE status = "absent" -> 0
      [] status = "pending" -> 1
      [] status = "processing" -> 2
      [] OTHER -> 3

\* one step of a status: it stays, or moves forward from a non-terminal status
ForwardStep(a, b) == a = b \/ (~Terminal(a) /\ StatusRank(a) < StatusRank(b))

\* C1: for every outcome of a run, the stored status of a task only moves forward
\* pending -> processing -> completed|failed, and a completed or failed status is
\* never changed by a later operation.
C1_StatusOnlyForward ==
    [][\A t \in TaskIds : ForwardStep(tasks[t].status, tasks'[t].status)]_vars

\* C2: when execute_pipeline_task has returned, the task it marked processing is
\* completed or failed, whatever the executor or the result persistence did.
C2_ReturnedIsTerminal ==
    \A t \in TaskIds : pc[t] = "returned" => Terminal(tasks[t].status)

\* C2 witness: a run whose result persistence raised has returned, recorded failed
C2_Witness ==
    \E t \in TaskIds :
        /\ pc[t] = "returned"
        /\ tasks[t].status = "failed"
        /\ tasks[t].error = "persist error"

\* C3: in every reachable state of every task record the progress counters are
\* non-negative, processed <= total_urls and processed + failed <= total_urls.
C3_ProgressWithinTotal ==
    \A t \in TaskIds :
        LET p == tasks[t].progress IN
        /\ p.processed >= 0
        /\ p.failed >= 0
        /\ p.processed <= p.total_urls
        /\ p.processed + p.failed <= p.total_urls

\* C3 witness: a task completed through build_progress with both counters positive
C3_Witness ==
    \E t \in TaskIds :
        /\ tasks[t].status = "completed"
        /\ tasks[t].progress.processed > 0
        /\ tasks[t].progress.failed > 0
        /\ tasks[t].progress.processed + tasks[t].progress.failed = tasks[t].progress.total_urls

----------------------------------------------------------------------------
(* newsletter.io.url_loader: URLs, normalization and the manifest loader.   *)
(* A URL is the record urlparse splits it into; a host is its sequence of   *)
(* dot-separated labels; strings are drawn from a small vocabulary.         *)

Url(scheme, host, path, query, frag) ==
    [scheme |-> scheme, host |-> host, path |-> path, query |-> query, frag |-> frag]

NoUrl == Url("", <<>>, "", <<>>, "")

\* str.lower() on the vocabulary
Lower(s) ==
    CASE s = "HTTPS" -> "https"
      [] s = "EXAMPLE" -> "example"
      [] s = "UTM_source" -> "utm_source"
      [] s = "Ref" -> "ref"
      [] OTHER -> s

LowerLabels(host) == [i \in 1..Len(host) |-> Lower(host[i])]

\* key.lower().startswith(TRACKING_PREFIXES) on the vocabulary of query keys
TRACKING_PREFIXES == {"utm_", "utm-", "ref", "gclid", "fbclid"}

StartsWithTracking(key) ==
    CASE key = "utm_source" -> "utm_" \in TRACKING_PREFIXES
      [] key = "ref" -> "ref" \in TRACKING_PREFIXES
      [] key = "referrer" -> "ref" \in TRACKING_PREFIXES
      [] key = "gclid" -> "gclid" \in TRACKING_PREFIXES
      [] OTHER -> FALSE

KeepQueryKey(key) == key # "" /\ ~StartsWithTracking(Lower(key))

\* path.rstrip("/") on the vocabulary of paths
RStripSlash(path) ==
    CASE path = "/" -> ""
      [] path = "/a/" -> "/a"
      [] path = "/A/" -> "/A"
      [] path = "/b/" -> "/b"
      [] path = "/a;x/" -> "/a;x"
      [] OTHER -> path

\* urlparse(...).path: for http(s) the text from the first ";" of the last path
\* segment on is split off as params (urllib's _splitparams), on the vocabulary
ParsedPath(path) ==
    CASE path = "/a;x" -> "/a"
      [] OTHER -> path

\* (parsed.path or "/").rstrip("/") or "/"
NormalizePath(path) ==
    LET p == IF path = "" THEN "/" ELSE path
        stripped == RStripSlash(p)
    IN IF stripped = "" THEN "/" ELSE stripped

\* normalize_url raises ValueError exactly when scheme or netloc is empty
NormalizeRejects(raw) == raw.scheme = "" \/ raw.host = <<>>

normalize_url(raw) ==
    Url(Lower(raw.scheme), LowerLabels(raw.host), NormalizePath(ParsedPath(raw.path)),
        SelectSeq(raw.query, KeepQueryKey), "")

\* mutant: any scheme is accepted
AnyHttpUrlAcceptsAnyScheme(u) == TRUE

\* AnyHttpUrl(normalized) accepts the http and https schemes only
AnyHttpUrlAccepts(u) == u.scheme \in {"http", "https"}

\* a manifest line: a URL candidate (possibly followed by # text), a comment or blank
UrlLine(u) == [kind |-> "url", url |-> u]
CommentLine == [kind |-> "comment", url |-> NoUrl]
BlankLine == [kind |-> "blank", url |-> NoUrl]

\* _strip_inline_comment: everything from the first # on is cut, so a fragment goes
StripInlineComment(line) == [line.url EXCEPT !.frag = ""]

EmptyLoadResult == [entries |-> <<>>, invalid_entries |-> <<>>, duplicate_urls |-> <<>>]

\* mutant: a repeated normalized URL is kept as a second entry
LoadStepKeepDuplicates(acc, seen, line, index) ==
    LET candidate == StripInlineComment(line)
        normalized == normalize_url(candidate)
    IN IF line.kind # "url" THEN acc
       ELSE IF NormalizeRejects(candidate) \/ ~AnyHttpUrlAccepts(normalized)
       THEN [acc EXCEPT !.invalid_entries =
                 Append(@, [raw_url |-> candidate, reason |-> "invalid",
                            source_line |-> index])]
       ELSE [acc EXCEPT !.entries =
                 Append(@, [raw_url |-> candidate, normalized_url |-> normalized,
                            source_line |-> index])]

\* one iteration of load_urls' loop over _iter_manifest_lines
LoadStep(acc, seen, line, index) ==
    LET candidate == StripInlineComment(line)
        normalized == normalize_url(candidate)
    IN IF line.kind # "url" THEN acc
       ELSE IF NormalizeRejects(candidate)
       THEN [acc EXCEPT !.invalid_entries =
                 Append(@, [raw_url |-> candidate,
                            reason |-> "URL must include scheme and host",
                            source_line |-> index])]
       ELSE IF ~AnyHttpUrlAccepts(normalized)
       THEN [acc EXCEPT !.invalid_entries =
                 Append(@, [raw_url |-> candidate, reason |-> "URL scheme not permitted",
                            source_line |-> index])]
       ELSE IF normalized \in seen
       THEN [acc EXCEPT !.duplicate_urls = Append(@, normalized)]
       ELSE [acc EXCEPT !.entries =
                 Append(@, [raw_url |-> candidate, normalized_url |-> normalized,
                            source_line |-> index])]

SeenOf(acc) == {acc.entries[i].normalized_url : i \in 1..Len(acc.entries)}

RECURSIVE LoadFrom(_, _, _)
LoadFrom(lines, index, acc) ==
    IF index > Len(lines) THEN acc
    ELSE LoadFrom(lines, index + 1, LoadStep(acc, SeenOf(acc), lines[index], index))

load_urls(lines) == LoadFrom(lines, 1, EmptyLoadResult)

\* the lines the pipeline's manifests are drawn from
LineA1 == UrlLine(Url("HTTPS", <<"EXAMPLE", "com">>, "/a/", <<"UTM_source">>, "top"))
LineB == UrlLine(Url("https", <<"arxiv", "org">>, "/b", <<>>, ""))
LineD == UrlLine(Url("https", <<"example", "com">>, "/A", <<>>, ""))
LineF == UrlLine(Url("ftp", <<"bad", "com">>, "", <<>>, ""))

PipelineLines == {LineA1, LineB, LineD, LineF}

----------------------------------------------------------------------------
(* newsletter.classification.topic_classifier                              *)

PAPER_DOMAINS ==
    {<<"arxiv", "org">>, <<"openreview", "net">>, <<"paperswithcode", "com">>,
     <<"neurips", "cc">>, <<"acm", "org">>, <<"ieee", "org">>}

BLOG_DOMAINS ==
    {<<"medium", "com">>, <<"substack", "com">>, <<"dev", "to">>, <<"hashnode", "dev">>,
     <<"blogspot", "com">>, <<"wordpress", "com">>, <<"zhihu", "com">>, <<"wechat", "com">>}

OPEN_SOURCE_DOMAINS ==
    {<<"github", "com">>, <<"gitlab", "com">>, <<"huggingface", "co">>,
     <<"bitbucket", "org">>}

\* domain.endswith("." + candidate): candidate is a proper suffix of the labels
EndsWithLabels(domain, candidate) ==
    /\ Len(domain) > Len(candidate)
    /\ \A i \in 1..Len(candidate) :
           domain[Len(domain) - Len(candidate) + i] = candidate[i]

_matches_domain(domain, targets) ==
    \E candidate \in targets : domain = candidate \/ EndsWithLabels(domain, candidate)

\* keyword in domain, for the keywords "press" and "news", on the label vocabulary
LabelHasPressOrNews(label) == label \in {"press", "news", "wordpress", "newsroom"}

\* an article's text is modelled by the set of lower-case phrases it contains
_text_contains(text, keywords) == text \cap keywords # {}

\* mutant: the open-source rule is tried before the paper rule
_classify_with_rules_open_source_first(art) ==
    LET domain == LowerLabels(art.url.host) IN
    IF _matches_domain(domain, OPEN_SOURCE_DOMAINS) \/ "github.com" \in art.text
    THEN "OpenSource"
    ELSE IF _matches_domain(domain, PAPER_DOMAINS)
            \/ _text_contains(art.text, {"arxiv", "iclr", "neurips"})
    THEN "Papers"
    ELSE IF _matches_domain(domain, BLOG_DOMAINS)
            \/ (Len(domain) > 1 /\ domain[1] = "blog")
    THEN "Blogs"
    ELSE IF \E i \in 1..Len(domain) : LabelHasPressOrNews(domain[i])
    THEN "EngineeringProductBusiness"
    ELSE IF "release" \in art.text \/ "roadmap" \in art.text
    THEN "EngineeringProductBusiness"
    ELSE "None"

_classify_with_rules(art) ==
    LET domain == LowerLabels(art.url.host) IN
    IF _matches_domain(domain, PAPER_DOMAINS)
       \/ _text_contains(art.text, {"arxiv", "iclr", "neurips"})
    THEN "Papers"
    ELSE IF _matches_domain(domain, OPEN_SOURCE_DOMAINS) \/ "github.com" \in art.text
    THEN "OpenSource"
    ELSE IF _matches_domain(domain, BLOG_DOMAINS)
            \/ (Len(domain) > 1 /\ domain[1] = "blog")
    THEN "Blogs"
    ELSE IF \E i \in 1..Len(domain) : LabelHasPressOrNews(domain[i])
    THEN "EngineeringProductBusiness"
    ELSE IF "release" \in art.text \/ "roadmap" \in art.text
    THEN "EngineeringProductBusiness"
    ELSE "None"

\* _parse_topic on the vocabulary of provider replies
_parse_topic(reply) ==
    CASE reply = "Paper" -> "Papers"
      [] reply = "Blog" -> "Blogs"
      [] reply = "topic: open source" -> "OpenSource"
      [] reply = "Engineering" -> "EngineeringProductBusiness"
      [] OTHER -> "None"

\* what the completion provider does when the topic classifier calls it
TopicProviderOutcomes == {"Paper", "unsure", "raise"}

\* mutant: the provider's answer is labelled as a rule's
classify_llm_labelled_rules(art, configured, outcome) ==
    LET ruled == _classify_with_rules(art) IN
    IF ruled # "None"
    THEN [raised |-> FALSE, topic |-> ruled, source |-> "rules", provider |-> "none"]
    ELSE IF ~configured
    THEN [raised |-> FALSE, topic |-> "Unknown", source |-> "rules", provider |-> "none"]
    ELSE IF outcome = "raise"
    THEN [raised |-> TRUE, topic |-> "None", source |-> "rules", provider |-> "error"]
    ELSE [raised |-> FALSE,
          topic |-> IF _parse_topic(outcome) = "None" THEN "Unknown"
                    ELSE _parse_topic(outcome),
          source |-> "rules", provider |-> "ok"]

\* TopicClassifier.classify: rules first, then the provider when one is configured;
\* `raised` is set when _llm_client.complete raises, which classify does not catch
classify(art, configured, outcome) ==
    LET ruled == _classify_with_rules(art) IN
    IF ruled # "None"
    THEN [raised |-> FALSE, topic |-> ruled, source |-> "rules", provider |-> "none"]
    ELSE IF ~configured
    THEN [raised |-> FALSE, topic |-> "Unknown", source |-> "rules", provider |-> "none"]
    ELSE IF outcome = "raise"
    THEN [raised |-> TRUE, topic |-> "None", source |-> "llm", provider |-> "error"]
    ELSE [raised |-> FALSE,
          topic |-> IF _parse_topic(outcome) = "None" THEN "Unknown"
                    ELSE _parse_topic(outcome),
          source |-> "llm", provider |-> "ok"]

----------------------------------------------------------------------------
(* newsletter.metadata.extractor (as the pipeline sees it) and the         *)
(* per-article subtopic classification SubtopicClassifier.classify          *)

\* mutant: the reply's subtopics are kept whatever the topic
_normalize_subtopics_any_topic(topic, subtopics) == subtopics

\* MetadataExtractor._normalize_subtopics: kept for Papers only (labels already trimmed)
_normalize_subtopics(topic, subtopics) == IF topic # "Papers" THEN <<>> ELSE subtopics

\* the subtopics lists a provider reply to the extractor may carry
ExtractedSubtopics == {<<>>, <<"LLM">>}

SUPPORTED_SUBTOPICS ==
    <<"LLM", "Agents", "Multimodal", "RL", "System/Engineering", "Retrieval/RAG",
      "Evaluation", "Data/Synthetic Data", "Safety/Alignment">>

\* candidate.strip().lower() matched against the supported labels, on the vocabulary
CanonicalSubtopic(candidate) ==
    CASE candidate = "agents" -> "Agents"
      [] candidate = "llm" -> "LLM"
      [] candidate = "rl" -> "RL"
      [] OTHER -> candidate

RECURSIVE DedupLabels(_, _)
DedupLabels(candidates, acc) ==
    IF candidates = <<>> THEN acc
    ELSE LET label == CanonicalSubtopic(Head(candidates)) IN
         DedupLabels(Tail(candidates),
                     IF \E i \in 1..Len(acc) : acc[i] = label THEN acc
                     ELSE Append(acc, label))

\* _normalize_subtopics of the subtopic classifier: canonical labels, no repeats, <= 2
NormalizeSubtopicReply(candidates) ==
    LET normalized == DedupLabels(candidates, <<>>) IN
    IF Len(normalized) > 1 THEN SubSeq(normalized, 1, 2) ELSE normalized

\* what the completion provider does when the subtopic classifier calls it
SubtopicProviderOutcomes == {"three", "raise"}

SubtopicReply(outcome) ==
    IF outcome = "three" THEN <<"agents", "Vision", "llm">> ELSE <<>>

\* mutant: no keyword rules, the provider is asked for every Papers article
SubtopicClassifyNoRules(art, configured, outcome) ==
    IF art.topic # "Papers"
    THEN [subtopics |-> <<>>, provider |-> "none"]
    ELSE IF ~configured
    THEN [subtopics |-> <<>>, provider |-> "none"]
    ELSE IF outcome = "raise"
    THEN [subtopics |-> <<>>, provider |-> "error"]
    ELSE [subtopics |-> NormalizeSubtopicReply(SubtopicReply(outcome)), provider |-> "ok"]

\* SubtopicClassifier.classify(article, metadata): Papers only; keyword rules on the
\* text first (at most one label); then one provider call, whose failure gives []
SubtopicClassify(art, configured, outcome) ==
    IF art.topic # "Papers"
    THEN [subtopics |-> <<>>, provider |-> "none"]
    ELSE IF "reinforcement learning" \in art.text
    THEN [subtopics |-> <<"RL">>, provider |-> "none"]
    ELSE IF ~configured
    THEN [subtopics |-> <<>>, provider |-> "none"]
    ELSE IF outcome = "raise"
    THEN [subtopics |-> <<>>, provider |-> "error"]
    ELSE [subtopics |-> NormalizeSubtopicReply(SubtopicReply(outcome)), provider |-> "ok"]

----------------------------------------------------------------------------
(* newsletter.pipeline.builder: NewsletterPipeline.run, one step per stage  *)
(* of the loop body, inside execute_pipeline_task for the task PipelineTask *)

PipelineTask == "t1"

NoArticle ==
    [url |-> NoUrl, text |-> {}, topic |-> "None", source |-> "none", subtopics |-> <<>>]

EmptyResult ==
    [entries |-> <<>>, invalid_urls |-> <<>>, skipped_urls |-> <<>>, failed_urls |-> <<>>]

\* the phrases a fetched article's text may contain
TextKinds == {{}, {"reinforcement learning"}}

\* a stage event of the run: which stage ran for which entry, whether it completed
\* without raising, and whether a completion-provider call failed in it
Event(st, index, ok, provider) ==
    [stage |-> st, index |-> index, ok |-> ok, provider_failed |-> provider = "error"]

\* mutant: the duplicates run skipped are not counted as processed
CountsOfWithoutSkipped(res) ==
    ResultCounts(Len(res.entries), 0, Len(res.failed_urls), Len(res.invalid_urls))

\* the lengths build_progress reads of the pipeline's result
CountsOf(res) ==
    ResultCounts(Len(res.entries), Len(res.skipped_urls), Len(res.failed_urls),
                 Len(res.invalid_urls))

\* mutant: the failing URL is logged but not recorded
OnUrlFailureDropped(res, url) == res

\* result.failed_urls.append(normalized_url)
OnUrlFailure(res, url) == [res EXCEPT !.failed_urls = Append(@, url)]

\* mutant: the new entry is put in front
AddEntryInFront(res, entry) == [res EXCEPT !.entries = <<entry>> \o @]

\* result.entries.append(newsletter_entry)
AddEntry(res, entry) == [res EXCEPT !.entries = Append(@, entry)]

\* mutant: metadata is extracted before the topic is classified
NextStageExtractFirst(st) ==
    CASE st = "fetch" -> "extract"
      [] st = "extract" -> "classify"
      [] st = "classify" -> "finalize"
      [] OTHER -> "append"

\* the statement order of the loop body
NextStage(st) ==
    CASE st = "fetch" -> "classify"
      [] st = "classify" -> "extract"
      [] st = "extract" -> "finalize"
      [] OTHER -> "append"

CurrentUrl == loaded.entries[cursor].normalized_url

\* `continue` / the end of the loop body: the next entry, or run returns its result
AdvanceUrl ==
    /\ cursor' = cursor + 1
    /\ article' = NoArticle
    /\ IF cursor + 1 > Len(loaded.entries)
       THEN stage' = "none" /\ runState' = "done"
       ELSE stage' = "fetch" /\ runState' = runState

\* run: load_urls, then the result is seeded with the invalid and duplicate URLs
RunLoad ==
    /\ pc[PipelineTask] = "running"
    /\ runState = "idle"
    /\ loaded' = load_urls(manifest)
    /\ result' = [EmptyResult EXCEPT !.invalid_urls = loaded'.invalid_entries,
                                     !.skipped_urls = loaded'.duplicate_urls]
    /\ cursor' = 1
    /\ IF Len(loaded'.entries) = 0
       THEN stage' = "none" /\ runState' = "done"
       ELSE stage' = "fetch" /\ runState' = "running"
    /\ UNCHANGED <<manifest, llmConfigured, article, log>>

\* execute raises before the loop: the manifest cannot be read (UrlLoadError is
\* re-raised by run) or a client cannot be constructed
RunSetupRaises ==
    /\ pc[PipelineTask] = "running"
    /\ runState = "idle"
    /\ runState' = "raised"
    /\ UNCHANGED <<manifest, llmConfigured, loaded, cursor, stage, article, result, log>>

\* jina_client.fetch returned the article
FetchOk(text) ==
    /\ runState = "running"
    /\ stage = "fetch"
    /\ article' = [NoArticle EXCEPT !.url = CurrentUrl, !.text = text]
    /\ log' = Append(log, Event("fetch", cursor, TRUE, "none"))
    /\ stage' = NextStage(stage)
    /\ UNCHANGED <<manifest, llmConfigured, loaded, cursor, result, runState>>

\* jina_client.fetch raised JinaClientError: recorded, then `continue`
FetchFails ==
    /\ runState = "running"
    /\ stage = "fetch"
    /\ result' = OnUrlFailure(result, CurrentUrl)
    /\ log' = Append(log, Event("fetch", cursor, FALSE, "none"))
    /\ AdvanceUrl
    /\ UNCHANGED <<manifest, llmConfigured, loaded>>

\* topic_classifier.classify(content), outside any try block of run
ClassifyTopic(outcome) ==
    /\ runState = "running"
    /\ stage = "classify"
    /\ LET c == classify(article, llmConfigured, outcome) IN
       /\ log' = Append(log, Event("classify", cursor, ~c.raised, c.provider))
       /\ IF c.raised
          THEN /\ runState' = "raised"
               /\ UNCHANGED <<stage, article>>
          ELSE /\ article' = [article EXCEPT !.topic = c.topic, !.source = c.source]
               /\ stage' = NextStage(stage)
               /\ UNCHANGED runState
    /\ UNCHANGED <<manifest, llmConfigured, loaded, cursor, result>>

\* metadata_extractor.extract(classified) returned a record
ExtractOk(subtopics) ==
    /\ runState = "running"
    /\ stage = "extract"
    /\ article' = [article EXCEPT !.subtopics = _normalize_subtopics(article.topic, subtopics)]
    /\ log' = Append(log, Event("extract", cursor, TRUE, "none"))
    /\ stage' = NextStage(stage)
    /\ UNCHANGED <<manifest, llmConfigured, loaded, cursor, result, runState>>

\* metadata_extractor.extract raised MetadataExtractionError: recorded, then `continue`
ExtractFails ==
    /\ runState = "running"
    /\ stage = "extract"
    /\ result' = OnUrlFailure(result, CurrentUrl)
    /\ log' = Append(log, Event("extract", cursor, FALSE, "none"))
    /\ AdvanceUrl
    /\ UNCHANGED <<manifest, llmConfigured, loaded>>

\* _finalize_metadata: the classifier's subtopics replace the extractor's when non-empty
FinalizeMetadata(outcome) ==
    /\ runState = "running"
    /\ stage = "finalize"
    /\ LET c == SubtopicClassify(article, llmConfigured, outcome) IN
       /\ article' = IF c.subtopics # <<>> THEN [article EXCEPT !.subtopics = c.subtopics]
                     ELSE article
       /\ log' = Append(log, Event("subtopics", cursor, TRUE, c.provider))
    /\ stage' = NextStage(stage)
    /\ UNCHANGED <<manifest, llmConfigured, loaded, cursor, result, runState>>

\* the NewsletterEntry is built and appended; the loop body ends
AppendEntry ==
    /\ runState = "running"
    /\ stage = "append"
    /\ result' = AddEntry(result, [source_url |-> article.url, topic |-> article.topic,
                                   subtopics |-> article.subtopics,
                                   metadata_subtopics |-> article.subtopics])
    /\ log' = Append(log, Event("append", cursor, TRUE, "none"))
    /\ AdvanceUrl
    /\ UNCHANGED <<manifest, llmConfigured, loaded>>

Manifests == UNION {[1..n -> PipelineLines] : n \in 1..MaxLines}

\* get_task_store wires the SQLite store for the runs of DefaultPipelineExecutor
InitPipeline ==
    /\ storeKind = "sqlite"
    /\ tasks = [t \in TaskIds |-> NoTask]
    /\ pc = [t \in TaskIds |-> "none"]
    /\ jobUrls = [t \in TaskIds |-> 0]
    /\ manifest \in Manifests
    /\ llmConfigured \in BOOLEAN
    /\ loaded = EmptyLoadResult
    /\ cursor = 0
    /\ stage = "none"
    /\ article = NoArticle
    /\ result = EmptyResult
    /\ runState = "idle"
    /\ log = <<>>
    /\ ExtractIdle
    /\ AuxIdle

NextPipeline ==
    \/ Generate(PipelineTask, Len(manifest)) /\ UNCHANGED <<pipeVars, exVars, auxVars>>
    \/ WorkerStart(PipelineTask) /\ UNCHANGED <<pipeVars, exVars, auxVars>>
    \/ RunLoad /\ UNCHANGED <<taskVars, exVars, auxVars>>
    \/ RunSetupRaises /\ UNCHANGED <<taskVars, exVars, auxVars>>
    \/ \E text \in TextKinds : FetchOk(text) /\ UNCHANGED <<taskVars, exVars, auxVars>>
    \/ FetchFails /\ UNCHANGED <<taskVars, exVars, auxVars>>
    \/ \E outcome \in TopicProviderOutcomes :
         ClassifyTopic(outcome) /\ UNCHANGED <<taskVars, exVars, auxVars>>
    \/ \E subtopics \in ExtractedSubtopics :
         ExtractOk(subtopics) /\ UNCHANGED <<taskVars, exVars, auxVars>>
    \/ ExtractFails /\ UNCHANGED <<taskVars, exVars, auxVars>>
    \/ \E outcome \in SubtopicProviderOutcomes :
         FinalizeMetadata(outcome) /\ UNCHANGED <<taskVars, exVars, auxVars>>
    \/ AppendEntry /\ UNCHANGED <<taskVars, exVars, auxVars>>
    \/ runState = "raised" /\ ExecuteRaises(PipelineTask) /\ UNCHANGED <<pipeVars, exVars, auxVars>>
    \/ runState = "done" /\ PersistOk(PipelineTask, CountsOf(result))
         /\ UNCHANGED <<pipeVars, exVars, auxVars>>
    \/ runState = "done" /\ PersistRaisesEarly(PipelineTask)
         /\ UNCHANGED <<pipeVars, exVars, auxVars>>
    \/ runState = "done" /\ PersistCommitsThenRaises(PipelineTask, CountsOf(result))
         /\ UNCHANGED <<pipeVars, exVars, auxVars>>
    \/ HandlePersistFailure(PipelineTask) /\ UNCHANGED <<pipeVars, exVars, auxVars>>

SpecPipeline == InitPipeline /\ [][NextPipeline]_vars

----------------------------------------------------------------------------
(* load_urls alone, line by line over manifests of all kinds of lines      *)
(* (SpecLoad).                                                              *)

\* largest number of lines of a manifest given to load_urls alone
MaxManifest == 4

\* the lines those manifests are drawn from: URLs that normalize to the same or to
\* different URLs, an unsupported scheme, a line without scheme, a comment, a blank
LoadLines ==
    {UrlLine(Url("https", <<"EXAMPLE", "com">>, "/A/", <<>>, "")),
     UrlLine(Url("https", <<"example", "com">>, "/a", <<>>, "")),
     LineA1,
     UrlLine(Url("https", <<"example", "com">>, "/a;x/", <<>>, "")),
     LineF,
     UrlLine(Url("", <<>>, "example.com", <<>>, "")),
     CommentLine,
     BlankLine}

\* one iteration of the loop of load_urls
LoadLine ==
    /\ cursor < Len(manifest)
    /\ loaded' = LoadStep(loaded, SeenOf(loaded), manifest[cursor + 1], cursor + 1)
    /\ cursor' = cursor + 1
    /\ UNCHANGED <<manifest, llmConfigured, stage, article, result, runState, log>>

InitLoad ==
    /\ TasksIdle
    /\ manifest \in UNION {[1..n -> LoadLines] : n \in 1..MaxManifest}
    /\ llmConfigured = FALSE
    /\ loaded = EmptyLoadResult
    /\ cursor = 0
    /\ stage = "none"
    /\ article = NoArticle
    /\ result = EmptyResult
    /\ runState = "idle"
    /\ log = <<>>
    /\ ExtractIdle
    /\ AuxIdle

NextLoad == LoadLine /\ UNCHANGED <<taskVars, exVars, auxVars>>

SpecLoad == InitLoad /\ [][NextLoad]_vars

----------------------------------------------------------------------------
(* Claims about one pipeline run, checked under SpecPipeline.              *)

\* the manifest read independently of load_urls: the lines that carry a valid URL,
\* the normalized URL of each, and the first line each normalized URL appears on
LineIsValid(line) ==
    /\ line.kind = "url"
    /\ ~NormalizeRejects(StripInlineComment(line))
    /\ AnyHttpUrlAccepts(normalize_url(StripInlineComment(line)))

ValidLines == {i \in 1..Len(manifest) : LineIsValid(manifest[i])}

NormOfLine(i) == normalize_url(StripInlineComment(manifest[i]))

UniqueUrls == {NormOfLine(i) : i \in ValidLines}

FirstLine(u) ==
    LET lines == {i \in ValidLines : NormOfLine(i) = u}
    IN CHOOSE i \in lines : \A j \in lines : i <= j

\* how many times x occurs in the sequence seq
Occurrences(seq, x) == Cardinality({i \in 1..Len(seq) : seq[i] = x})

EntryUrls == [i \in 1..Len(result.entries) |-> result.entries[i].source_url]

\* the run was submitted with one URL, its fetch failed, and the task's worker returned
SingleUrlFetchFailed ==
    /\ Len(manifest) = 1
    /\ LineIsValid(manifest[1])
    /\ log = <<Event("fetch", 1, FALSE, "none")>>
    /\ pc[PipelineTask] = "returned"

\* C4 as stated: with one URL whose fetch fails, entries = [], failed_urls = [url],
\* and the wrapping task ends in status failed with progress.failed = 1.
C4_SingleFailureTaskFailed ==
    SingleUrlFetchFailed =>
        /\ result.entries = <<>>
        /\ result.failed_urls = <<NormOfLine(1)>>
        /\ tasks[PipelineTask].status = "failed"
        /\ tasks[PipelineTask].progress.failed = 1

\* C4 amended: with one URL whose fetch fails, entries = [], failed_urls = [url], and
\* the wrapping task ends in status completed with progress (total 1, processed 0,
\* failed 1); it ends failed only when persisting the result raised.
C4_SingleFailureTaskCompleted ==
    SingleUrlFetchFailed =>
        /\ result.entries = <<>>
        /\ result.failed_urls = <<NormOfLine(1)>>
        /\ tasks[PipelineTask].progress = TaskProgress(1, 0, 1)
        /\ \/ tasks[PipelineTask].status = "completed"
           \/ /\ tasks[PipelineTask].status = "failed"
              /\ tasks[PipelineTask].error = "persist error"

\* C4 witness: the one URL's fetch failed and the task was stored completed
C4_Witness ==
    /\ SingleUrlFetchFailed
    /\ tasks[PipelineTask].status = "completed"
    /\ tasks[PipelineTask].progress.failed = 1

\* a fetch or metadata-extraction failure of one URL
IsUrlFailure(e) == e.stage \in {"fetch", "extract"} /\ ~e.ok

\* C5 as stated: whatever URLs fail to fetch or to extract, run does not raise, each
\* failing URL's normalized form is in failed_urls, and every later URL of the
\* manifest is still processed (run returns only after a fetch was made for each).
C5_FailuresNeverAbortRun ==
    /\ runState = "raised" => log = <<>>
    /\ \A k \in DOMAIN log :
         IsUrlFailure(log[k]) =>
             /\ Occurrences(result.failed_urls,
                            loaded.entries[log[k].index].normalized_url) = 1
             /\ runState # "raised"
    /\ runState = "done" =>
         \A i \in 1..Len(loaded.entries) :
             \E k \in DOMAIN log : log[k].stage = "fetch" /\ log[k].index = i

\* C6 as stated: a provider call that raises during topic or subtopic classification
\* leaves the step completed (topic Unknown / no subtopics) and no exception
\* escapes run, so the run goes on to the remaining URLs.
C6_ProviderFailureDegrades ==
    \A k \in DOMAIN log :
        log[k].provider_failed =>
            /\ log[k].stage \in {"classify", "subtopics"}
            /\ log[k].ok
            /\ runState \in {"running", "done"}

\* C7: when run has returned, every unique URL of the manifest is exactly once in
\* entries or failed_urls (never both, never neither), every duplicate occurrence is
\* in skipped_urls, and len(entries) + len(failed_urls) is the number of unique URLs.
C7_EveryUrlAccountedOnce ==
    runState = "done" =>
        LET unique == {loaded.entries[i].normalized_url : i \in 1..Len(loaded.entries)}
        IN /\ unique = UniqueUrls
           /\ Cardinality(unique) = Len(loaded.entries)
           /\ \A u \in unique :
                Occurrences(EntryUrls, u) + Occurrences(result.failed_urls, u) = 1
           /\ Len(result.entries) + Len(result.failed_urls) = Cardinality(unique)
           /\ result.skipped_urls = loaded.duplicate_urls
           /\ Len(result.skipped_urls) + Cardinality(unique) = Cardinality(ValidLines)

\* C7 witness: a returned run with an entry, a failed URL and a skipped duplicate
C7_Witness ==
    /\ runState = "done"
    /\ Len(result.entries) = 1
    /\ Len(result.failed_urls) = 1
    /\ Len(result.skipped_urls) = 1

\* C8: entries are in the manifest order of the first occurrence of their normalized
\* URLs, whatever lies between them.
C8_EntriesInManifestOrder ==
    \A i, j \in 1..Len(result.entries) :
        i < j => FirstLine(EntryUrls[i]) < FirstLine(EntryUrls[j])

\* C8 witness: two entries from the first and the last line with a failed URL between
C8_Witness ==
    /\ runState = "done"
    /\ Len(manifest) = 3
    /\ Len(result.entries) = 2
    /\ FirstLine(EntryUrls[1]) = 1
    /\ FirstLine(EntryUrls[2]) = 3
    /\ result.failed_urls = <<NormOfLine(2)>>

StageRank(st) ==
    CASE st = "fetch" -> 1
      [] st = "classify" -> 2
      [] st = "extract" -> 3
      [] st = "subtopics" -> 4
      [] OTHER -> 5

\* the event that ends the processing of its URL: the entry was appended, or the
\* fetch or the extraction failed
EndsUrl(e) == e.stage = "append" \/ IsUrlFailure(e)

\* C9: the stage events of a run start with the fetch of the first URL; after a
\* stage of a URL comes either the next stage of the same URL, and only if the
\* stage succeeded, or the fetch of the next URL, and only if the URL is finished;
\* no stage runs twice for one URL.
C9_StagesInOrder ==
    /\ log # <<>> => (log[1].stage = "fetch" /\ log[1].index = 1)
    /\ \A k \in 1..(Len(log) - 1) :
         \/ /\ log[k + 1].index = log[k].index
            /\ log[k].ok
            /\ StageRank(log[k + 1].stage) = StageRank(log[k].stage) + 1
         \/ /\ log[k + 1].index = log[k].index + 1
            /\ log[k + 1].stage = "fetch"
            /\ EndsUrl(log[k])
    /\ \A k, m \in DOMAIN log :
         (log[k].stage = log[m].stage /\ log[k].index = log[m].index) => k = m

\* C9 witness: all five stages ran for the first URL, then the second URL's fetch
C9_Witness ==
    /\ Len(log) >= 6
    /\ log[5].stage = "append"
    /\ log[5].index = 1
    /\ log[6].stage = "fetch"
    /\ log[6].index = 2

----------------------------------------------------------------------------
(* newsletter.metadata.extractor: MetadataExtractor._request_metadata, one  *)
(* step per iteration of its loop (SpecExtract).                            *)

\* what one client.complete call leads to: the provider raises OpenRouterError, the
\* reply is not JSON, the JSON fails _LLMMetadata validation, or the reply is valid
RejectedReplies == {"provider_error", "not_json", "schema_invalid"}

\* the exception the try block raises for a rejected reply
ExceptionOf(reply) ==
    CASE reply = "provider_error" -> "OpenRouterError"
      [] reply = "not_json" -> "JSONDecodeError"
      [] OTHER -> "ValidationError"

\* mutant: the except clause does not name ValidationError
ExceptClauseCatchesNoValidation(exc) == exc \in {"OpenRouterError", "JSONDecodeError"}

\* except (OpenRouterError, json.JSONDecodeError, ValidationError)
ExceptClauseCatches(exc) == exc \in {"OpenRouterError", "JSONDecodeError", "ValidationError"}

\* mutant: the last attempt is not recognised, the loop goes on
LastAttemptNever(attempt, attempts) == FALSE

\* if attempt == attempts
LastAttempt(attempt, attempts) == attempt = attempts

\* attempts = self._config.max_attempts; for attempt in range(1, attempts + 1):
\* an empty range falls through to the raise after the loop
RequestStart ==
    /\ exState = "idle"
    /\ IF exMax >= 1
       THEN exAttempt' = 1 /\ exState' = "looping" /\ exError' = exError
       ELSE exAttempt' = 0 /\ exState' = "raised" /\ exError' = "MetadataExtractionError"
    /\ UNCHANGED <<exMax, exCalls, exReplies>>

\* the try block runs to its return: complete, json.loads and model_validate succeed
AttemptValid ==
    /\ exState = "looping"
    /\ exCalls' = exCalls + 1
    /\ exReplies' = Append(exReplies, "valid")
    /\ exState' = "returned"
    /\ UNCHANGED <<exMax, exAttempt, exError>>

\* the try block raises: an exception the except clause does not name escapes as it
\* is; else the failure is logged, MetadataExtractionError is raised on the last
\* attempt, and otherwise the loop goes to the next attempt
AttemptRejected(reply) ==
    /\ exState = "looping"
    /\ exCalls <= MaxAttemptsBound
    /\ exCalls' = exCalls + 1
    /\ exReplies' = Append(exReplies, reply)
    /\ IF ~ExceptClauseCatches(ExceptionOf(reply))
       THEN exState' = "raised" /\ exAttempt' = exAttempt /\ exError' = ExceptionOf(reply)
       ELSE IF LastAttempt(exAttempt, exMax)
       THEN /\ exState' = "raised" /\ exAttempt' = exAttempt
            /\ exError' = "MetadataExtractionError"
       ELSE exState' = "looping" /\ exAttempt' = exAttempt + 1 /\ exError' = exError
    /\ UNCHANGED exMax

InitExtract ==
    /\ TasksIdle
    /\ PipeIdle
    /\ exMax \in 0..MaxAttemptsBound
    /\ exAttempt = 0
    /\ exCalls = 0
    /\ exReplies = <<>>
    /\ exState = "idle"
    /\ exError = "none"
    /\ AuxIdle

NextExtract ==
    \/ RequestStart /\ UNCHANGED <<taskVars, pipeVars, auxVars>>
    \/ AttemptValid /\ UNCHANGED <<taskVars, pipeVars, auxVars>>
    \/ \E reply \in RejectedReplies : AttemptRejected(reply) /\ UNCHANGED <<taskVars, pipeVars, auxVars>>

SpecExtract == InitExtract /\ [][NextExtract]_vars

\* C10: extract calls the provider at most max_attempts times and stops at the first
\* valid reply: a valid reply is always the last call and ends in success, and
\* extract gives up only after max_attempts calls without a valid reply; so when the
\* first valid reply is the k-th, k <= max_attempts, it succeeds after exactly k calls.
C10_CallsBoundedStopAtFirstValid ==
    /\ exCalls = Len(exReplies)
    /\ exCalls <= exMax
    /\ \A k \in DOMAIN exReplies :
         exReplies[k] = "valid" => (k = exCalls /\ exState = "returned")
    /\ exState = "returned" => (exCalls >= 1 /\ exReplies[exCalls] = "valid")
    /\ exState = "raised" =>
         (exCalls = exMax /\ \A k \in DOMAIN exReplies : exReplies[k] \in RejectedReplies)

\* C10 witness: 'not json' then a valid payload with max_attempts = 2: success, 2 calls
C10_Witness ==
    /\ exMax = 2
    /\ exState = "returned"
    /\ exReplies = <<"not_json", "valid">>
    /\ exCalls = 2

\* no reply received so far was valid
AllRejected == \A k \in DOMAIN exReplies : exReplies[k] \in RejectedReplies

----------------------------------------------------------------------------
(* newsletter.classification.topic_classifier: one TopicClassifier object,  *)
(* classify called any number of times on any articles (SpecClassify).      *)

\* the URLs of the valid manifest lines
ManifestUrls ==
    {normalize_url(StripInlineComment(line)) : line \in PipelineLines \ {LineF}}

\* the URLs an article may have: those of the manifest, and one on an open-source
\* host, a blog host, a blog. host and a news host
ClassifyUrls ==
    ManifestUrls
    \cup {Url("https", host, "/b", <<>>, "") :
            host \in {<<"github", "com">>, <<"medium", "com">>,
                      <<"blog", "example", "com">>, <<"news", "example", "com">>}}

\* what the completion provider replies to the topic prompt, or that it raises
ClassifyReplies == {"Paper", "Blog", "Engineering", "topic: open source", "unsure", "raise"}

\* _classify_with_llm would call self._llm_client.complete: no cached topic for the URL
ProviderCalled(art, configured) ==
    /\ _classify_with_rules(art) = "None"
    /\ configured
    /\ tcCache[art.url] = "None"

\* the cache after _classify_with_llm: a reply that parses to a topic is stored under
\* the URL; an unparseable reply and a raised call leave the cache as it was
CacheAfter(art, reply) ==
    IF reply # "raise" /\ _parse_topic(reply) # "None"
    THEN [tcCache EXCEPT ![art.url] = _parse_topic(reply)]
    ELSE tcCache

\* the ClassifiedArticle classify returns on the classifier object: the cached topic
\* when _classify_with_llm finds one, else what rules and provider give; NoArticle
\* when the provider call raised and nothing is returned
ClassifiedArticle(art, reply) ==
    IF _classify_with_rules(art) = "None" /\ llmConfigured /\ tcCache[art.url] # "None"
    THEN [art EXCEPT !.topic = tcCache[art.url], !.source = "llm"]
    ELSE LET c == classify(art, llmConfigured, reply) IN
         IF c.raised THEN NoArticle
         ELSE [art EXCEPT !.topic = c.topic, !.source = c.source]

\* TopicClassifier.classify(article) on the classifier object
ClassifyCall(art, reply) ==
    /\ tcCalls[art.url] < MaxCalls
    /\ IF ProviderCalled(art, llmConfigured)
       THEN /\ tcCalls' = [tcCalls EXCEPT ![art.url] = @ + 1]
            /\ tcCache' = CacheAfter(art, reply)
       ELSE UNCHANGED <<tcCache, tcCalls>>
    /\ article' = ClassifiedArticle(art, reply)

ClassifyArticles == {[NoArticle EXCEPT !.url = u, !.text = x] : u \in ManifestUrls, x \in TextKinds}

InitClassify ==
    /\ TasksIdle
    /\ manifest = <<>>
    /\ llmConfigured \in BOOLEAN
    /\ loaded = EmptyLoadResult
    /\ cursor = 0
    /\ stage = "none"
    /\ article = NoArticle
    /\ result = EmptyResult
    /\ runState = "idle"
    /\ log = <<>>
    /\ ExtractIdle
    /\ tcCache = [u \in ClassifyUrls |-> "None"]
    /\ tcCalls = [u \in ClassifyUrls |-> 0]
    /\ StreamIdle
    /\ StoreIdle
    /\ IoIdle

NextClassify ==
    \E art \in ClassifyArticles, reply \in ClassifyReplies :
        ClassifyCall(art, reply)
            /\ UNCHANGED <<taskVars, manifest, llmConfigured, loaded, cursor, stage, result,
                           runState, log, exVars, streamVars, storeVars, ioVars>>

SpecClassify == InitClassify /\ [][NextClassify]_vars

\* C12 as stated: on one classifier the provider is called at most once per URL,
\* whatever it replied the first time.
C12_ProviderCalledOncePerUrl == \A u \in ClassifyUrls : tcCalls[u] <= 1

----------------------------------------------------------------------------
(* newsletter.api.app: the status stream stream_task_events and the status  *)
(* query get_task_status on one task, while a worker runs that task         *)
(* (SpecStream; SpecStreamFair adds the scheduling of the stream).          *)

WatchedTask == "t1"

\* _status_payload: the JSON text of task_id, status, progress and error of a record
\* (task_id is the same for every record of the watched task)
_status_payload(rec) == [status |-> rec.status, progress |-> rec.progress, error |-> rec.error]

\* mutant: only completed ends the stream
is_terminal_status_completed_only(status) == status = "completed"

\* is_terminal_status
is_terminal_status(status) == status \in {"completed", "failed"}

\* mutant: every polled payload is emitted
PayloadChangedAlways(payload, last) == TRUE

\* if payload != last_payload
PayloadChanged(payload, last) == payload # last

StreamEvent(event, data) == [event |-> event, data |-> data]

\* the sequence with x appended unless x is already its last element
AppendChange(seq, x) == IF seq # <<>> /\ seq[Len(seq)] = x THEN seq ELSE Append(seq, x)

\* stream_task_events before the generator: 404 when the store does not hold the task
StreamOpen ==
    /\ wPc = "none"
    /\ wPc' = IF tasks[WatchedTask].status = "absent" THEN "rejected" ELSE "polling"
    /\ UNCHANGED <<wLast, wEvents, wTerminalRead, wLateRead, wPolled, obs>>

\* one iteration of event_generator's loop: get, compare, yield on change, break on a
\* terminal status, else sleep
StreamPoll ==
    /\ wPc = "polling"
    /\ LET record == tasks[WatchedTask]
           payload == _status_payload(record)
       IN IF record.status = "absent"
          THEN /\ wPc' = "ending"
               /\ UNCHANGED <<wLast, wEvents, wTerminalRead, wPolled>>
          ELSE /\ wPolled' = AppendChange(wPolled, payload)
               /\ IF PayloadChanged(payload, wLast)
                  THEN /\ wEvents' = Append(wEvents, StreamEvent("status", payload))
                       /\ wLast' = payload
                  ELSE UNCHANGED <<wEvents, wLast>>
               /\ IF is_terminal_status(record.status)
                  THEN wPc' = "ending" /\ wTerminalRead' = TRUE
                  ELSE wPc' = "polling" /\ wTerminalRead' = wTerminalRead
    /\ wLateRead' = (wLateRead \/ wTerminalRead)
    /\ UNCHANGED obs

\* after the loop: the end event with the last payload, then the generator returns
StreamEnd ==
    /\ wPc = "ending"
    /\ wEvents' = IF wLast # NoPayload THEN Append(wEvents, StreamEvent("end", wLast))
                  ELSE wEvents
    /\ wPc' = "closed"
    /\ UNCHANGED <<wLast, wTerminalRead, wLateRead, wPolled, obs>>

\* get_task_status: one status query of a watcher that polls
StatusQuery ==
    /\ tasks[WatchedTask].status # "absent"
    /\ obs' = AppendChange(obs, tasks[WatchedTask].status)
    /\ UNCHANGED <<wPc, wLast, wEvents, wTerminalRead, wLateRead, wPolled>>

InitStream ==
    /\ storeKind \in {"memory", "sqlite"}
    /\ tasks = [t \in TaskIds |-> NoTask]
    /\ pc = [t \in TaskIds |-> "none"]
    /\ jobUrls = [t \in TaskIds |-> 0]
    /\ PipeIdle
    /\ ExtractIdle
    /\ AuxIdle

streamRest == <<pipeVars, exVars, tcVars, storeVars, ioVars>>

NextStream ==
    \/ \E n \in 1..MaxUrls : Generate(WatchedTask, n) /\ UNCHANGED <<streamVars, streamRest>>
    \/ WorkerStart(WatchedTask) /\ UNCHANGED <<streamVars, streamRest>>
    \/ ExecuteRaises(WatchedTask) /\ UNCHANGED <<streamVars, streamRest>>
    \/ \E res \in StubResults :
         PersistOk(WatchedTask, res) /\ UNCHANGED <<streamVars, streamRest>>
    \/ PersistRaisesEarly(WatchedTask) /\ UNCHANGED <<streamVars, streamRest>>
    \/ \E res \in StubResults :
         PersistCommitsThenRaises(WatchedTask, res) /\ UNCHANGED <<streamVars, streamRest>>
    \/ HandlePersistFailure(WatchedTask) /\ UNCHANGED <<streamVars, streamRest>>
    \/ StreamOpen /\ UNCHANGED <<taskVars, streamRest>>
    \/ StreamPoll /\ UNCHANGED <<taskVars, streamRest>>
    \/ StreamEnd /\ UNCHANGED <<taskVars, streamRest>>
    \/ StatusQuery /\ UNCHANGED <<taskVars, streamRest>>

SpecStream == InitStream /\ [][NextStream]_vars

\* the event loop runs the generator again after every sleep and every yield
SpecStreamFair ==
    /\ SpecStream
    /\ WF_vars(StreamPoll /\ UNCHANGED <<taskVars, streamRest>>)
    /\ WF_vars(StreamEnd /\ UNCHANGED <<taskVars, streamRest>>)

\* the status events the stream has yielded
StatusEvents == SelectSeq(wEvents, LAMBDA e : e.event = "status")

\* the safety part of C13
StreamEndsOnce ==
    /\ ~wLateRead
    /\ wTerminalRead => wPc \in {"ending", "closed"}
    /\ \A k \in DOMAIN wEvents :
         wEvents[k].event = "end" => (k = Len(wEvents) /\ wPc = "closed")
    /\ (wPc = "closed" /\ wTerminalRead) =>
         /\ Len(wEvents) >= 2
         /\ wEvents[Len(wEvents)].event = "end"
         /\ wEvents[Len(wEvents) - 1].event = "status"
         /\ is_terminal_status(wEvents[Len(wEvents) - 1].data.status)

\* C13: once the stored status of the task is completed or failed, an open stream
\* eventually closes; it has then emitted the terminal status it read, then exactly
\* one end event, the last event of all; and it never reads the store after the poll
\* that returned a terminal status.
C13_StreamTerminates ==
    /\ []StreamEndsOnce
    /\ (wPc = "polling" /\ Terminal(tasks[WatchedTask].status)) ~> (wPc = "closed")

\* C13 witness: the stream closed after emitting processing, failed and the end event
C13_Witness ==
    /\ wPc = "closed"
    /\ Len(wEvents) = 3
    /\ wEvents[1].data.status = "processing"
    /\ wEvents[2].data.status = "failed"
    /\ wEvents[3].event = "end"

\* ranks never decrease along the sequence of statuses
ForwardOnly(statuses) ==
    \A i, j \in DOMAIN statuses : i < j => StatusRank(statuses[i]) <= StatusRank(statuses[j])

\* C14: what a watcher observes while a worker runs the task, through the status
\* events of the stream or through successive status queries, never goes back along
\* pending -> processing -> completed|failed (statuses may be skipped).
C14_ObservationsForwardOnly ==
    /\ ForwardOnly([k \in DOMAIN StatusEvents |-> StatusEvents[k].data.status])
    /\ ForwardOnly(obs)

\* C14 witness: the queries saw pending, processing and completed while the stream,
\* opened later, skipped pending
C14_Witness ==
    /\ obs = <<"pending", "processing", "completed">>
    /\ Len(StatusEvents) = 2
    /\ StatusEvents[1].data.status = "processing"
    /\ StatusEvents[2].data.status = "completed"

\* C15: the status events are exactly the payloads the stream polled with the
\* repetitions left out: no two consecutive status events carry the same payload,
\* no polled change is missing, and the end event carries the last emitted payload.
C15_EmitsExactlyOnChange ==
    /\ [k \in DOMAIN StatusEvents |-> StatusEvents[k].data] = wPolled
    /\ \A k \in 1..(Len(StatusEvents) - 1) : StatusEvents[k].data # StatusEvents[k + 1].data
    /\ wLast = IF StatusEvents = <<>> THEN NoPayload ELSE StatusEvents[Len(StatusEvents)].data
    /\ \A k \in DOMAIN wEvents : wEvents[k].event = "end" => wEvents[k].data = wLast

\* C15 witness: three different payloads were polled and emitted, then the end event
C15_Witness ==
    /\ Len(wPolled) = 3
    /\ Len(StatusEvents) = 3
    /\ wEvents[Len(wEvents)].event = "end"
    /\ wEvents[Len(wEvents)].data.status = "completed"

----------------------------------------------------------------------------
(* newsletter.api.task_store: the five store operations called by clients   *)
(* in any order on any task id, each operation one step (SpecStore).        *)

\* one caller holding at most one handed-out record
Clients == {"a"}

MarkOps == {"mark_processing", "mark_completed", "mark_failed"}

\* what a client holds after a store operation: the operation, the id it named, the
\* outcome ("copy": a record object of its own; "alias": the very object the store
\* keeps; "KeyError"; "None") and, for a record, its fields when it was handed out,
\* with the changes the client made to it since
Held(op, id, kind, rec) == [op |-> op, id |-> id, kind |-> kind, rec |-> rec]

\* mutant: an update of an unknown id inserts the row
KnownIdAlways(id) == TRUE

\* _update: `if record is None` / `if cursor.rowcount == 0`
KnownId(id) == tasks[id].status # "absent"

\* what create returns: InMemoryTaskStore returns the object it stored, SQLiteTaskStore
\* builds a second TaskRecord
CreateReturns(kind) == IF kind = "memory" THEN "alias" ELSE "copy"

\* the fields of the record a client holds, as the client reads them now
HeldView(c) == IF thr[c].kind = "alias" THEN tasks[thr[c].id] ELSE thr[c].rec

\* the record a mark_* operation of a store of the given kind writes over rec
MarkRecIn(kind, op, rec) ==
    CASE op = "mark_processing" -> MarkProcessingRec(kind, rec)
      [] op = "mark_completed" ->
           MarkCompletedRec(rec, TaskProgress(rec.progress.total_urls,
                                              rec.progress.total_urls, 0))
      [] OTHER -> MarkFailedRec(rec, "boom", FailureProgress(rec.progress.total_urls))

\* the record a mark_* operation writes over rec
MarkRec(op, rec) == MarkRecIn(storeKind, op, rec)

\* TaskStore.create: a new id (uuid4), the record stored and returned
StoreCreate(c, id) ==
    /\ tasks[id].status = "absent"
    /\ tasks' = [tasks EXCEPT ![id] = NewRecord(1)]
    /\ versions' = [versions EXCEPT ![id] = NewRecord(1)]
    /\ thr' = [thr EXCEPT ![c] = Held("create", id, CreateReturns(storeKind), NewRecord(1))]
    /\ UNCHANGED <<storeKind, pc, jobUrls, lock>>

\* TaskStore.get: None for an unknown id, else a copy of the record
StoreGet(c, id) ==
    /\ thr' = [thr EXCEPT ![c] = IF tasks[id].status = "absent"
                                 THEN Held("get", id, "None", NoTask)
                                 ELSE Held("get", id, "copy", tasks[id])]
    /\ UNCHANGED <<storeKind, tasks, pc, jobUrls, lock, versions>>

\* mark_processing / mark_completed / mark_failed through _update: KeyError for an
\* unknown id, else the row is written and a copy of it returned; the caller keeps
\* the returned record or drops it and goes on holding the one it had
StoreMark(c, id, op, keep) ==
    /\ IF KnownId(id)
       THEN /\ tasks' = [tasks EXCEPT ![id] = MarkRec(op, tasks[id])]
            /\ versions' = [versions EXCEPT ![id] = MarkRec(op, tasks[id])]
            /\ thr' = IF keep
                      THEN [thr EXCEPT ![c] = Held(op, id, "copy", MarkRec(op, tasks[id]))]
                      ELSE thr
       ELSE /\ thr' = [thr EXCEPT ![c] = Held(op, id, "KeyError", NoTask)]
            /\ UNCHANGED <<tasks, versions>>
    /\ UNCHANGED <<storeKind, pc, jobUrls, lock>>

\* a caller assigns to a field of the TaskRecord it was handed (TaskRecord is a
\* mutable pydantic model)
ClientEdit(c) ==
    /\ thr[c].kind \in {"copy", "alias"}
    /\ thr[c].rec.error # "edited"
    /\ thr' = [thr EXCEPT ![c].rec.error = "edited"]
    /\ IF thr[c].kind = "alias"
       THEN tasks' = [tasks EXCEPT ![thr[c].id].error = "edited"]
       ELSE UNCHANGED tasks
    /\ UNCHANGED <<storeKind, pc, jobUrls, lock, versions>>

\* generate_newsletter as one handler: create, dispatch, then the response built from
\* the TaskRecord create returned. The dispatcher queues the job (dispatch = "queued")
\* or runs execute_pipeline_task itself before it returns, ending in mark_completed
\* or mark_failed; the response's status is record.status read after dispatch
GenerateHandler(c, id, dispatch) ==
    LET done == IF dispatch = "queued"
                THEN NewRecord(1)
                ELSE MarkRec(dispatch, MarkRec("mark_processing", NewRecord(1)))
        answered == IF CreateReturns(storeKind) = "alias" THEN done.status ELSE "pending"
    IN /\ tasks[id].status = "absent"
       /\ tasks' = [tasks EXCEPT ![id] = done]
       /\ versions' = [versions EXCEPT ![id] = done]
       /\ thr' = [thr EXCEPT ![c] =
                    Held("generate", id, "response", [NoTask EXCEPT !.status = answered])]
       /\ UNCHANGED <<storeKind, pc, jobUrls, lock>>

\* get_task_result: the HTTP status it answers for the record get returned
ResultAnswer(rec) ==
    IF rec.status = "absent" THEN "404"
    ELSE IF rec.status # "completed" THEN "409"
    ELSE IF rec.markdown_content = "null" \/ rec.metadata = "null" THEN "500"
    ELSE "200"

\* a result request: the answer, and with 200 the record whose document is served
ResultQuery(c, id) ==
    /\ thr' = [thr EXCEPT ![c] =
                 Held("result", id, ResultAnswer(tasks[id]),
                      IF ResultAnswer(tasks[id]) = "200" THEN tasks[id] ELSE NoTask)]
    /\ UNCHANGED <<storeKind, tasks, pc, jobUrls, lock, versions>>

InitStore ==
    /\ storeKind \in {"memory", "sqlite"}
    /\ tasks = [t \in TaskIds |-> NoTask]
    /\ pc = [t \in TaskIds |-> "none"]
    /\ jobUrls = [t \in TaskIds |-> 0]
    /\ PipeIdle
    /\ ExtractIdle
    /\ ClassifyIdle
    /\ StreamIdle
    /\ IoIdle
    /\ lock = "free"
    /\ thr = [c \in Clients |-> Held("none", "t1", "none", NoTask)]
    /\ versions = [t \in TaskIds |-> NoTask]

storeRest == <<pipeVars, exVars, tcVars, streamVars, ioVars>>

NextStore ==
    \/ \E c \in Clients, id \in TaskIds : StoreCreate(c, id) /\ UNCHANGED storeRest
    \/ \E c \in Clients, id \in TaskIds : StoreGet(c, id) /\ UNCHANGED storeRest
    \/ \E c \in Clients, id \in TaskIds, op \in MarkOps, keep \in BOOLEAN :
         StoreMark(c, id, op, keep) /\ UNCHANGED storeRest
    \/ \E c \in Clients : ClientEdit(c) /\ UNCHANGED storeRest
    \/ \E c \in Clients, id \in TaskIds,
          dispatch \in {"queued", "mark_completed", "mark_failed"} :
         GenerateHandler(c, id, dispatch) /\ UNCHANGED storeRest
    \/ \E c \in Clients, id \in TaskIds : ResultQuery(c, id) /\ UNCHANGED storeRest

SpecStore == InitStore /\ [][NextStore]_vars

\* C16 (as stated): whatever mark_* calls reach the store, in whatever order, a task
\* that is completed or failed keeps that status.
C16_StoreKeepsTerminalStatus ==
    [][\A id \in TaskIds :
         Terminal(tasks[id].status) => tasks'[id].status = tasks[id].status]_vars

\* C17 (as stated): generate answers with the status pending, also when the
\* dispatcher ran the task before the response was built; a status query made
\* afterwards reports the status the task has at that moment.
C17_GenerateAnswersPending ==
    [][\A c \in Clients :
         /\ (thr'[c] # thr[c] /\ thr'[c].op = "generate")
              => thr'[c].rec.status = "pending"
         /\ (thr'[c] # thr[c] /\ thr'[c].op = "get" /\ thr'[c].kind = "copy")
              => thr'[c].rec.status = tasks'[thr'[c].id].status]_vars

\* C18 (as stated): a TaskRecord handed out by the store is a snapshot. The stored
\* record is the one the last store operation wrote (a change the holder makes to its
\* record does not reach it), and a record a caller holds reads as it did when it was
\* handed out, with the holder's own changes (later transitions do not reach it).
C18_HandedOutRecordIsSnapshot ==
    /\ \A id \in TaskIds : tasks[id] = versions[id]
    /\ \A c \in Clients : thr[c].kind \in {"copy", "alias"} => HeldView(c) = thr[c].rec

\* C20: mark_processing, mark_completed and mark_failed on an id the store does not
\* hold end in the not-found error (KeyError) and leave every record as it was; get
\* on such an id answers None and creates no record.
C20_UnknownIdNotFound ==
    [][\A c \in Clients :
         (/\ thr'[c] # thr[c]
          /\ thr'[c].op \in MarkOps \cup {"get"}
          /\ tasks[thr'[c].id].status = "absent")
         => /\ tasks' = tasks
            /\ thr'[c].kind = IF thr'[c].op = "get" THEN "None" ELSE "KeyError"]_vars

\* a mark_failed on an unknown id has raised while the store holds a completed task
C20_Witness ==
    \E c \in Clients, id \in TaskIds :
        /\ thr[c].kind = "KeyError"
        /\ thr[c].op = "mark_failed"
        /\ tasks[thr[c].id].status = "absent"
        /\ tasks[id].status = "completed"

----------------------------------------------------------------------------
(* newsletter.api.task_store under concurrent callers (SpecStoreConc): two  *)
(* writers, each working on its own task id, and one reader. The in-memory  *)
(* _update is a sequence of setattr steps under self._lock; an SQLite       *)
(* statement is one step.                                                   *)

Threads == {"w1", "w2", "r"}

\* the task id each writer creates and updates
WriterTask == [w1 |-> "t1", w2 |-> "t2"]

\* a thread: where it is in its call, the operation and id, the fields _update has
\* still to set, the record its last get returned, and whether an update of that id
\* was under way when that get was called
Thread(at, op, id, todo, got, raced) ==
    [pc |-> at, op |-> op, id |-> id, todo |-> todo, got |-> got, raced |-> raced]

\* the keyword arguments each mark_* passes to InMemoryTaskStore._update, in order
UpdateFields(op) ==
    CASE op = "mark_processing" -> <<"status">>
      [] op = "mark_completed" ->
           <<"status", "markdown_content", "metadata", "progress", "completed_at", "error">>
      [] OTHER -> <<"status", "error", "completed_at", "progress">>

\* mutant: no operation waits for the lock
LockFreeAlways(kind) == TRUE

\* `with self._lock:` can be entered (SQLiteTaskStore has no lock of its own)
LockFree(kind) == kind = "sqlite" \/ lock = "free"

\* create by a writer: the record is stored under the lock / inserted
ConcCreate(w) ==
    /\ thr[w].pc = "idle"
    /\ tasks[WriterTask[w]].status = "absent"
    /\ LockFree(storeKind)
    /\ tasks' = [tasks EXCEPT ![WriterTask[w]] = NewRecord(1)]
    /\ versions' = [versions EXCEPT ![WriterTask[w]] = NewRecord(1)]
    /\ thr' = [thr EXCEPT ![w] = Thread("idle", "create", WriterTask[w], <<>>, NoTask, FALSE)]
    /\ UNCHANGED <<storeKind, pc, jobUrls, lock>>

\* a mark_* call enters _update. In memory: the lock is taken and the record found;
\* SQLite: the UPDATE statement is executed and committed
UpdateBegin(w, op) ==
    /\ thr[w].pc = "idle"
    /\ KnownId(WriterTask[w])
    /\ LockFree(storeKind)
    /\ IF storeKind = "memory"
       THEN /\ lock' = w
            /\ thr' = [thr EXCEPT ![w] = Thread("in_update", op, WriterTask[w],
                                                UpdateFields(op), NoTask, FALSE)]
            /\ UNCHANGED <<tasks, versions>>
       ELSE /\ tasks' = [tasks EXCEPT ![WriterTask[w]] = MarkRec(op, @)]
            /\ versions' = [versions EXCEPT ![WriterTask[w]] = MarkRec(op, @)]
            /\ thr' = [thr EXCEPT ![w] = Thread("reread", op, WriterTask[w], <<>>,
                                                NoTask, FALSE)]
            /\ UNCHANGED lock
    /\ UNCHANGED <<storeKind, pc, jobUrls>>

\* one setattr(record, key, value) of the loop in InMemoryTaskStore._update
UpdateWrite(w) ==
    /\ thr[w].pc = "in_update"
    /\ thr[w].todo # <<>>
    /\ tasks' = [tasks EXCEPT ![thr[w].id][Head(thr[w].todo)] =
                    MarkRec(thr[w].op, tasks[thr[w].id])[Head(thr[w].todo)]]
    /\ thr' = [thr EXCEPT ![w].todo = Tail(@)]
    /\ UNCHANGED <<storeKind, pc, jobUrls, lock, versions>>

\* _update returns: in memory the record is complete and the lock released; SQLite
\* re-reads the row
UpdateEnd(w) ==
    /\ \/ /\ thr[w].pc = "in_update"
          /\ thr[w].todo = <<>>
          /\ lock' = "free"
          /\ versions' = [versions EXCEPT ![thr[w].id] = tasks[thr[w].id]]
       \/ /\ thr[w].pc = "reread"
          /\ UNCHANGED <<lock, versions>>
    /\ thr' = [thr EXCEPT ![w].pc = "idle"]
    /\ UNCHANGED <<storeKind, tasks, pc, jobUrls>>

\* the reader calls get(id)
GetBegin(r, id) ==
    /\ thr[r].pc = "idle"
    /\ thr' = [thr EXCEPT ![r] =
                 Thread("calling", "get", id, <<>>, NoTask,
                        \E w \in DOMAIN WriterTask : thr[w].pc # "idle" /\ thr[w].id = id)]
    /\ UNCHANGED <<storeKind, tasks, pc, jobUrls, lock, versions>>

\* get runs: under the lock, the record is copied (SQLite: the SELECT)
GetDone(r) ==
    /\ thr[r].pc = "calling"
    /\ LockFree(storeKind)
    /\ thr' = [thr EXCEPT ![r].pc = "idle", ![r].got = tasks[thr[r].id]]
    /\ UNCHANGED <<storeKind, tasks, pc, jobUrls, lock, versions>>

InitStoreConc ==
    /\ storeKind \in {"memory", "sqlite"}
    /\ tasks = [t \in TaskIds |-> NoTask]
    /\ pc = [t \in TaskIds |-> "none"]
    /\ jobUrls = [t \in TaskIds |-> 0]
    /\ PipeIdle
    /\ ExtractIdle
    /\ ClassifyIdle
    /\ StreamIdle
    /\ IoIdle
    /\ lock = "free"
    /\ thr = [th \in Threads |-> Thread("idle", "none", "t1", <<>>, NoTask, FALSE)]
    /\ versions = [t \in TaskIds |-> NoTask]

NextStoreConc ==
    \/ \E w \in DOMAIN WriterTask : ConcCreate(w) /\ UNCHANGED storeRest
    \/ \E w \in DOMAIN WriterTask, op \in MarkOps : UpdateBegin(w, op) /\ UNCHANGED storeRest
    \/ \E w \in DOMAIN WriterTask : UpdateWrite(w) /\ UNCHANGED storeRest
    \/ \E w \in DOMAIN WriterTask : UpdateEnd(w) /\ UNCHANGED storeRest
    \/ \E id \in TaskIds : GetBegin("r", id) /\ UNCHANGED storeRest
    \/ GetDone("r") /\ UNCHANGED storeRest

SpecStoreConc == InitStoreConc /\ [][NextStoreConc]_vars

\* C19: however store operations on different task ids and reads interleave, a step
\* of an operation changes the record of the task it names and no other, and a get
\* returns a complete record: the one before the update under way on that id (None
\* before the create) or the one after it, never some fields of each.
C19_IsolatedAndUntornReads ==
    [][/\ \A id \in TaskIds :
            tasks'[id] # tasks[id]
            => \E th \in Threads : thr'[th] # thr[th] /\ thr'[th].id = id
       /\ \A th \in Threads :
            (thr[th].pc = "calling" /\ thr'[th].pc = "idle")
            => \/ thr'[th].got = versions[thr[th].id]
               \/ \E w \in DOMAIN WriterTask :
                    /\ thr[w].pc = "in_update"
                    /\ thr[w].id = thr[th].id
                    /\ thr'[th].got = MarkRec(thr[w].op, versions[thr[th].id])]_vars

\* on the in-memory store, a get called while an update of the same task was under
\* way has returned the completed record, with the other task's record in another status
C19_Witness ==
    /\ storeKind = "memory"
    /\ thr["r"].pc = "idle"
    /\ thr["r"].op = "get"
    /\ thr["r"].raced
    /\ thr["r"].got.status = "completed"
    /\ tasks[thr["r"].id].status = "completed"
    /\ \E id \in TaskIds : tasks[id].status = "processing"

\* C21 (as stated): in every state the store reaches, a task's completed_at is set
\* if and only if its status is completed or failed (create and mark_processing
\* leave it unset, mark_completed and mark_failed set it).
C21_CompletedAtIffTerminal ==
    \A t \in TaskIds :
        tasks[t].status # "absent"
        => (tasks[t].completed_at = "set" <=> Terminal(tasks[t].status))

\* C22: a result request is answered with the document exactly when the task is
\* completed; for a pending, processing or failed task with conflict (409), for an
\* unknown id with not-found (404); a completed task always has markdown_content
\* and metadata, so "task result missing" (500) is never answered.
C22_ResultServedIffCompleted ==
    [][/\ \A id \in TaskIds :
            tasks'[id].status = "completed"
            => tasks'[id].markdown_content # "null" /\ tasks'[id].metadata # "null"
       /\ \A c \in Clients :
            (thr'[c] # thr[c] /\ thr'[c].op = "result")
            => LET status == tasks[thr'[c].id].status
               IN /\ thr'[c].kind = "200" <=> status = "completed"
                  /\ thr'[c].kind = "409" <=> status \in {"pending", "processing", "failed"}
                  /\ thr'[c].kind = "404" <=> status = "absent"
                  /\ thr'[c].kind = "200" => thr'[c].rec.markdown_content = "doc"]_vars

\* the document of a completed task has been served
C22_Witness ==
    \E c \in Clients :
        /\ thr[c].op = "result"
        /\ thr[c].kind = "200"
        /\ tasks[thr[c].id].status = "completed"

----------------------------------------------------------------------------
(* Claims about load_urls and normalize_url, checked under SpecLoad.       *)

\* the lines consumed so far that carry a valid URL
ConsumedValid == {i \in ValidLines : i <= cursor}

\* C23: load_urls keeps the first occurrence of each normalized URL as an entry, in
\* manifest order, and records every later line with the same normalized URL in
\* duplicate_urls; no two entries share a normalized URL; every line that is not
\* blank and not a comment is counted in exactly one of entries, invalid_entries and
\* duplicate_urls.
C23_FirstOccurrenceWins ==
    LET entries == loaded.entries
        urlLines == {i \in 1..cursor : manifest[i].kind = "url"}
        sameUrl(u) == {i \in ConsumedValid : NormOfLine(i) = u}
    IN /\ \A k \in 1..Len(entries) :
            /\ entries[k].source_line \in ConsumedValid
            /\ entries[k].normalized_url = NormOfLine(entries[k].source_line)
            /\ \A i \in sameUrl(entries[k].normalized_url) : entries[k].source_line <= i
       /\ \A k, m \in 1..Len(entries) :
            /\ k < m => entries[k].source_line < entries[m].source_line
            /\ k # m => entries[k].normalized_url # entries[m].normalized_url
       /\ \A i \in ConsumedValid :
            /\ \E k \in 1..Len(entries) : entries[k].normalized_url = NormOfLine(i)
            /\ Occurrences(loaded.duplicate_urls, NormOfLine(i))
                 = Cardinality(sameUrl(NormOfLine(i))) - 1
       /\ {loaded.invalid_entries[k].source_line : k \in 1..Len(loaded.invalid_entries)}
            = urlLines \ ConsumedValid
       /\ Len(entries) + Len(loaded.invalid_entries) + Len(loaded.duplicate_urls)
            = Cardinality(urlLines)

\* a whole manifest has been loaded into two entries, a duplicate and an invalid entry
C23_Witness ==
    /\ cursor = Len(manifest)
    /\ Len(loaded.entries) = 2
    /\ Len(loaded.duplicate_urls) = 1
    /\ Len(loaded.invalid_entries) = 1
    /\ loaded.entries[1].raw_url # loaded.entries[1].normalized_url

\* the manifest 'https://EXAMPLE.com/A/', 'https://example.com/a', '# comment',
\* 'ftp://bad.com', loaded to its end
ExampleManifestLoaded ==
    /\ manifest = <<UrlLine(Url("https", <<"EXAMPLE", "com">>, "/A/", <<>>, "")),
                    UrlLine(Url("https", <<"example", "com">>, "/a", <<>>, "")),
                    CommentLine, LineF>>
    /\ cursor = Len(manifest)

\* C24 (as stated): the example manifest yields exactly one valid entry
\* (https://example.com/a), one duplicate and one invalid entry.
C24_ExampleOneEntryOneDuplicate ==
    ExampleManifestLoaded
    => /\ Len(loaded.entries) = 1
       /\ loaded.entries[1].normalized_url
            = Url("https", <<"example", "com">>, "/a", <<>>, "")
       /\ Len(loaded.duplicate_urls) = 1
       /\ Len(loaded.invalid_entries) = 1

\* C24 (amended): the example manifest yields two valid entries,
\* https://example.com/A from line 1 and https://example.com/a from line 2 (the path
\* keeps its case), no duplicate, and one invalid entry for line 4 (unsupported
\* scheme).
C24_ExampleTwoEntriesNoDuplicate ==
    ExampleManifestLoaded
    => /\ Len(loaded.entries) = 2
       /\ loaded.entries[1].normalized_url
            = Url("https", <<"example", "com">>, "/A", <<>>, "")
       /\ loaded.entries[1].source_line = 1
       /\ loaded.entries[2].normalized_url
            = Url("https", <<"example", "com">>, "/a", <<>>, "")
       /\ loaded.entries[2].source_line = 2
       /\ loaded.duplicate_urls = <<>>
       /\ Len(loaded.invalid_entries) = 1
       /\ loaded.invalid_entries[1].source_line = 4
       /\ loaded.invalid_entries[1].reason = "URL scheme not permitted"

\* load_urls has gone through the example manifest
C24_Witness == ExampleManifestLoaded /\ Len(loaded.entries) > 0

\* C25 (as stated): normalize_url is idempotent: for every URL u it accepts,
\* normalize_url(normalize_url(u)) = normalize_url(u).
C25_NormalizeIdempotent ==
    \A i \in 1..Len(manifest) :
        (manifest[i].kind = "url" /\ ~NormalizeRejects(manifest[i].url))
        => normalize_url(normalize_url(manifest[i].url)) = normalize_url(manifest[i].url)

----------------------------------------------------------------------------
(* Claims about TopicClassifier.classify, checked under SpecClassify.      *)

\* C26 (as stated): classification_source is "rules" if and only if one of the rule
\* steps produced the returned topic, and "llm" if and only if the completion
\* provider's reply produced it.
C26_SourceNamesProducingStep ==
    article # NoArticle
    => /\ article.source = "rules" <=> _classify_with_rules(article) # "None"
       /\ article.source = "llm"
            <=> /\ _classify_with_rules(article) = "None"
                /\ llmConfigured
                /\ article.topic # "Unknown"

\* C26 (amended): classification_source is "llm" if and only if no rule step matched
\* and a completion provider is configured (the provider step was taken, whether or
\* not its reply gave a topic), and "rules" otherwise; a topic other than Unknown
\* comes from a rule exactly when the source is "rules" and from a provider reply
\* exactly when it is "llm"; Unknown carries "rules" without a provider and "llm"
\* with one.
C26_SourceNamesStepTaken ==
    article # NoArticle
    => LET ruled == _classify_with_rules(article) IN
       /\ article.source = "llm" <=> (ruled = "None" /\ llmConfigured)
       /\ article.source = "rules" <=> (ruled # "None" \/ ~llmConfigured)
       /\ ruled # "None" => article.topic = ruled
       /\ (article.topic # "Unknown" /\ article.source = "llm")
            => \E reply \in ClassifyReplies \ {"raise"} : article.topic = _parse_topic(reply)
       /\ article.topic = "Unknown" => ruled = "None"

\* without a provider, an article no rule matches came back as Unknown from "rules"
C26_Witness ==
    /\ article # NoArticle
    /\ ~llmConfigured
    /\ article.topic = "Unknown"
    /\ article.source = "rules"

----------------------------------------------------------------------------
(* Claims about subtopics in one pipeline run, checked under SpecPipeline. *)

----------------------------------------------------------------------------
(* newsletter.classification.subtopic_classifier: assign_subtopics, the     *)
(* batched classification of a list of entries in one provider call         *)
(* (SpecAssign). result.entries holds the entries given to it, log the      *)
(* reply the provider gave.                                                  *)

\* largest number of entries given to assign_subtopics
MaxEntries == 2

\* the entries it may be given: URL, topic, and the subtopics they carry already
AssignEntries ==
    {[source_url |-> u, title |-> "T", topic |-> t, subtopics |-> st,
      metadata_subtopics |-> st] :
        u \in {"u1", "u2"}, t \in {"Papers", "Blogs"}, st \in {<<>>, <<"LLM">>}}

\* the provider's reply: the call raises; text that is not JSON; the JSON
\* {"classifications": null}; or a list of {"id", "subtopics"} items
AssignReplies ==
    LET items == {[id |-> 1, subtopics |-> <<"llm", "LLM", "Vision", "agents">>],
                  [id |-> 2, subtopics |-> <<"agents">>],
                  [id |-> 1, subtopics |-> <<>>],
                  [id |-> 9, subtopics |-> <<"rl">>]}
    IN {[kind |-> k, items |-> <<>>] : k \in {"raise", "not_json", "null"}}
       \cup {[kind |-> "list", items |-> its] : its \in UNION {[1..n -> items] : n \in 0..2}}

\* _parse_response's loop: the normalized subtopics of each item whose id names a
\* paper, stored under that paper's source_url when not empty (<<>>: no key)
RECURSIVE ParseItems(_, _, _)
ParseItems(items, papers, mapping) ==
    IF items = <<>> THEN mapping
    ELSE LET item == Head(items)
             normalized == NormalizeSubtopicReply(item.subtopics)
         IN ParseItems(Tail(items), papers,
                       IF item.id \in 1..Len(papers) /\ normalized # <<>>
                       THEN [mapping EXCEPT ![papers[item.id].source_url] = normalized]
                       ELSE mapping)

\* assign_subtopics(entries): nothing without a client or without papers; a raised
\* call returns; iterating the null payload raises TypeError; else every paper gets
\* the list found under its source_url or its title, or the empty list
AssignSubtopics(reply) ==
    /\ runState = "idle"
    /\ LET IsPaper(e) == e.topic = "Papers"
           papers == SelectSeq(result.entries, IsPaper)
           called == llmConfigured /\ papers # <<>>
           mapping == ParseItems(reply.items, papers, [k \in {"u1", "u2", "T"} |-> <<>>])
           found(e) == IF mapping[e.source_url] # <<>> THEN mapping[e.source_url]
                       ELSE mapping[e.title]
       IN /\ log' = IF called THEN <<reply>> ELSE <<>>
          /\ runState' = IF called /\ reply.kind = "null" THEN "raised" ELSE "done"
          /\ result' = IF called /\ reply.kind \in {"list", "not_json"}
                       THEN [result EXCEPT !.entries =
                               [i \in 1..Len(result.entries) |->
                                  IF IsPaper(result.entries[i])
                                  THEN [result.entries[i] EXCEPT
                                          !.subtopics = found(result.entries[i]),
                                          !.metadata_subtopics = found(result.entries[i])]
                                  ELSE result.entries[i]]]
                       ELSE result
    /\ UNCHANGED <<manifest, llmConfigured, loaded, cursor, stage, article>>

InitAssign ==
    /\ TasksIdle
    /\ manifest = <<>>
    /\ llmConfigured \in BOOLEAN
    /\ loaded = EmptyLoadResult
    /\ cursor = 0
    /\ stage = "none"
    /\ article = NoArticle
    /\ result \in {[EmptyResult EXCEPT !.entries = es] :
                     es \in UNION {[1..n -> AssignEntries] : n \in 1..MaxEntries}}
    /\ runState = "idle"
    /\ log = <<>>
    /\ ExtractIdle
    /\ AuxIdle

NextAssign ==
    \E reply \in AssignReplies :
        AssignSubtopics(reply) /\ UNCHANGED <<taskVars, exVars, auxVars>>

SpecAssign == InitAssign /\ [][NextAssign]_vars

\* C29 (as stated): after assign_subtopics has received a reply, every Papers entry
\* has at most 2 subtopics, no label twice, each in the canonical spelling of the
\* supported subtopic it matches, the same list in the entry and in its metadata;
\* a Papers entry for which the reply has no item with its id and a non-empty list
\* (an unparseable reply included) has the empty list.
C29_AssignedSubtopicsNormalized ==
    (runState # "idle" /\ log # <<>> /\ log[1].kind # "raise")
    => \A i \in 1..Len(result.entries) :
         LET e == result.entries[i]
             rank == Cardinality({j \in 1..i : result.entries[j].topic = "Papers"})
             answered == \E k \in 1..Len(log[1].items) :
                            /\ log[1].items[k].id = rank
                            /\ log[1].items[k].subtopics # <<>>
         IN e.topic = "Papers"
            => /\ Len(e.subtopics) <= 2
               /\ \A a, b \in 1..Len(e.subtopics) : a # b => e.subtopics[a] # e.subtopics[b]
               /\ \A a \in 1..Len(e.subtopics) :
                    CanonicalSubtopic(e.subtopics[a]) = e.subtopics[a]
               /\ e.subtopics = e.metadata_subtopics
               /\ ~answered => e.subtopics = <<>>

----------------------------------------------------------------------------
(* newsletter.services.jina_client: JinaClient.fetch of one URL (SpecFetch). *)

\* largest JinaReaderSettings.max_retries
MaxRetries == 3

\* what one client.get can bring: a 2xx response with its extractable text ("" when
\* it has none), an error status, or an httpx exception
JinaResponses ==
    {[kind |-> "ok", code |-> 200, text |-> t] : t \in {"", "body a", "body b"}}
    \cup {[kind |-> "status", code |-> c, text |-> ""] : c \in {401, 500}}
    \cup {[kind |-> k, code |-> 0, text |-> ""] : k \in {"timeout", "transport", "redirects"}}

\* the exception the try body raises on a response ("none": it returns):
\* client.get, raise_for_status, _parse_response
TryBodyRaises(resp) ==
    CASE resp.kind = "ok" -> IF resp.text = "" THEN "JinaClientError" ELSE "none"
      [] resp.kind = "status" -> "HTTPStatusError"
      [] resp.kind = "timeout" -> "TimeoutException"
      [] resp.kind = "transport" -> "TransportError"
      [] OTHER -> "TooManyRedirects"

\* mutant: the loop allows one request more
LoopExhaustedLate(j) == j.attempt > j.max_retries + 1

\* range(self._max_retries + 1) has no further value
LoopExhausted(j) == j.attempt >= j.max_retries + 1

\* the end of a loop iteration that did not leave fetch: the next iteration, or
\* the raise after the loop
NextIteration(j) ==
    LET done == [j EXCEPT !.attempt = @ + 1] IN
    IF LoopExhausted(done)
    THEN [done EXCEPT !.state = "raised", !.raised = "JinaClientError"]
    ELSE done

\* fetch(target_url) called on the client, for the first time or after an earlier
\* fetch returned or raised: the client keeps its headers and _had_auth_failure
FetchStart ==
    /\ jina.state \in {"ready", "returned", "raised"}
    /\ jina' = [jina EXCEPT !.state = "looping", !.attempt = 0, !.responses = <<>>,
                            !.last_error = "None", !.raised = "none", !.content = "none"]

\* one iteration of the loop of fetch, the request answered by resp
FetchAttempt(resp) ==
    /\ jina.state = "looping"
    /\ LET exc == TryBodyRaises(resp)
           j == [jina EXCEPT !.responses = Append(@, resp)]
       IN jina' =
            CASE exc = "none" ->
                   [j EXCEPT !.state = "returned", !.content = resp.text]
              [] exc = "HTTPStatusError" ->
                   IF ~j.had_auth_failure /\ resp.code = 401 /\ j.header
                   THEN NextIteration([j EXCEPT !.had_auth_failure = TRUE,
                                                !.header = FALSE, !.drops = @ + 1])
                   ELSE NextIteration([j EXCEPT !.last_error = exc])
              [] exc \in {"TimeoutException", "TransportError"} ->
                   NextIteration([j EXCEPT !.last_error = exc])
              [] OTHER ->
                   [j EXCEPT !.state = "raised", !.raised = exc]

\* a client built from its settings, with or without an API key
InitFetch ==
    /\ TasksIdle
    /\ PipeIdle
    /\ ExtractIdle
    /\ ClassifyIdle
    /\ StreamIdle
    /\ StoreIdle
    /\ rendered = <<>>
    /\ repoCall = NoRepoCall
    /\ twin = NoTwin
    /\ executor = NoExecutor
    /\ jina \in {[NoClient EXCEPT !.max_retries = m, !.header = h, !.state = "ready"] :
                   m \in 0..MaxRetries, h \in BOOLEAN}

fetchRest == <<taskVars, pipeVars, exVars, tcVars, streamVars, storeVars, rendered, repoCall,
              twin, executor>>

NextFetch ==
    \/ FetchStart /\ UNCHANGED fetchRest
    \/ \E resp \in JinaResponses : FetchAttempt(resp) /\ UNCHANGED fetchRest

SpecFetch == InitFetch /\ [][NextFetch]_vars

\* C30: fetch makes at most max_retries + 1 requests for one URL; a successful
\* response that has text is the last request and its text is what fetch returns,
\* and fetch returns nothing else; when the last allowed request fails with an error
\* status, a timeout or a transport error fetch raises JinaClientError, and on such a
\* failure nothing but JinaClientError is raised, and only once the requests are
\* used up.
C30_FetchBoundedAndTyped ==
    LET n == Len(jina.responses)
        HasText(r) == r.kind = "ok" /\ r.text # ""
        Failure(r) == r.kind \in {"status", "timeout", "transport"}
    IN /\ n <= jina.max_retries + 1
       /\ \A k \in 1..n :
            HasText(jina.responses[k])
            => k = n /\ jina.state = "returned" /\ jina.content = jina.responses[k].text
       /\ jina.state = "returned" => n >= 1 /\ HasText(jina.responses[n])
       /\ (n = jina.max_retries + 1 /\ Failure(jina.responses[n]))
          => jina.state = "raised" /\ jina.raised = "JinaClientError"
       /\ (jina.state = "raised" /\ Failure(jina.responses[n]))
          => jina.raised = "JinaClientError" /\ n = jina.max_retries + 1

\* fetch returned the text of the last request it was allowed, after failed ones
\* that included a rejected API token
C30_Witness ==
    /\ jina.state = "returned"
    /\ Len(jina.responses) = jina.max_retries + 1
    /\ Len(jina.responses) >= 3
    /\ jina.had_auth_failure
    /\ jina.last_error # "None"

----------------------------------------------------------------------------
(* newsletter.pipeline.markdown_renderer: MarkdownRenderer.render on a list *)
(* of entries (SpecRender). result.entries holds the list given to it. A    *)
(* block of the document is a topic header, a subtopic header, or the       *)
(* fixed-field block of the entry at a position of the input.               *)

\* largest number of entries given to render
MaxRendered == 3

\* the entries render may be given, by topic and subtopic lists
RenderEntries ==
    {[topic |-> t, subtopics |-> <<>>, metadata_subtopics |-> <<>>] :
        t \in {"Papers", "Blogs", "OpenSource", "EngineeringProductBusiness", "Unknown"}}
    \cup {[topic |-> "Papers", subtopics |-> st, metadata_subtopics |-> st] :
            st \in {<<"RL">>, <<"Agents">>, <<"RL", "Agents">>}}
    \cup {[topic |-> "Papers", subtopics |-> <<>>, metadata_subtopics |-> <<"LLM">>]}

Block(kind, label, entry) == [kind |-> kind, label |-> label, entry |-> entry]

\* mutant: blogs are displayed before papers
_topic_order_blogs_first ==
    <<"Blogs", "Papers", "OpenSource", "EngineeringProductBusiness", "Unknown">>

_topic_order ==
    <<"Papers", "Blogs", "OpenSource", "EngineeringProductBusiness", "Unknown">>

\* sorted(buckets) on the labels of the model: the order of Python's string comparison
SortedSubtopics == <<"Agents", "General", "LLM", "RL">>

\* grouped[topic] of _group_by_topic: the positions of the topic's entries, in order
RECURSIVE _group_by_topic(_, _, _)
_group_by_topic(entries, topic, i) ==
    IF i > Len(entries) THEN <<>>
    ELSE (IF entries[i].topic = topic THEN <<i>> ELSE <<>>)
         \o _group_by_topic(entries, topic, i + 1)

\* _render_entries: one block per entry, in the order given
_render_entries(positions) ==
    [k \in 1..Len(positions) |-> Block("entry", "", positions[k])]

\* entry.subtopics or entry.metadata.subtopics or ["General"]
BucketLabels(e) ==
    IF e.subtopics # <<>> THEN e.subtopics
    ELSE IF e.metadata_subtopics # <<>> THEN e.metadata_subtopics
    ELSE <<"General">>

\* _render_paper_subsections: a header and the bucket's entries per label, the
\* labels in sorted order from the k-th on
RECURSIVE _render_paper_subsections(_, _, _)
_render_paper_subsections(entries, positions, k) ==
    IF k > Len(SortedSubtopics) THEN <<>>
    ELSE LET label == SortedSubtopics[k]
             InBucket(i) == \E n \in 1..Len(BucketLabels(entries[i])) :
                               BucketLabels(entries[i])[n] = label
             bucket == SelectSeq(positions, InBucket)
         IN (IF bucket = <<>> THEN <<>>
             ELSE <<Block("subtopic", label, 0)>> \o _render_entries(bucket))
            \o _render_paper_subsections(entries, positions, k + 1)

\* the loop of render from the k-th topic of the display order on
RECURSIVE RenderSections(_, _)
RenderSections(entries, k) ==
    IF k > Len(_topic_order) THEN <<>>
    ELSE LET topic == _topic_order[k]
             topic_entries == _group_by_topic(entries, topic, 1)
         IN (IF topic_entries = <<>> THEN <<>>
             ELSE <<Block("topic", topic, 0)>>
                  \o (IF topic = "Papers"
                      THEN _render_paper_subsections(entries, topic_entries, 1)
                      ELSE _render_entries(topic_entries)))
            \o RenderSections(entries, k + 1)

\* MarkdownRenderer.render(entries)
Render ==
    /\ runState = "idle"
    /\ runState' = "done"
    /\ rendered' = RenderSections(result.entries, 1)
    /\ UNCHANGED <<manifest, llmConfigured, loaded, cursor, stage, article, result, log>>

InitRender ==
    /\ TasksIdle
    /\ manifest = <<>>
    /\ llmConfigured = FALSE
    /\ loaded = EmptyLoadResult
    /\ cursor = 0
    /\ stage = "none"
    /\ article = NoArticle
    /\ result \in {[EmptyResult EXCEPT !.entries = es] :
                     es \in UNION {[1..n -> RenderEntries] : n \in 0..MaxRendered}}
    /\ runState = "idle"
    /\ log = <<>>
    /\ ExtractIdle
    /\ AuxIdle

NextRender ==
    Render /\ UNCHANGED <<taskVars, exVars, tcVars, streamVars, storeVars, jina, repoCall, twin,
                       executor>>

SpecRender == InitRender /\ [][NextRender]_vars

\* the topic header a block of the document stands under ("" when none precedes it)
SectionOf(k) ==
    LET heads == {h \in 1..k : rendered[h].kind = "topic"} IN
    IF heads = {} THEN ""
    ELSE rendered[CHOOSE h \in heads : \A g \in heads : g <= h].label

\* the position of the topic or subtopic header a block stands under (0 when none)
GroupOf(k) ==
    LET heads == {h \in 1..k : rendered[h].kind # "entry"} IN
    IF heads = {} THEN 0 ELSE CHOOSE h \in heads : \A g \in heads : g <= h

\* the display position of a topic
TopicRank(topic) == CHOOSE r \in 1..5 :
    <<"Papers", "Blogs", "OpenSource", "EngineeringProductBusiness", "Unknown">>[r] = topic

\* the topic headers follow the display order, a topic has a header exactly when it
\* has an entry, and every entry has a block, each under the header of its topic
RenderedByTopic ==
    LET entries == result.entries
        n == Len(rendered)
    IN /\ \A a, b \in 1..n :
            (a < b /\ rendered[a].kind = "topic" /\ rendered[b].kind = "topic")
            => TopicRank(rendered[a].label) < TopicRank(rendered[b].label)
       /\ \A t \in {"Papers", "Blogs", "OpenSource", "EngineeringProductBusiness", "Unknown"} :
            (\E k \in 1..n : rendered[k] = Block("topic", t, 0))
            <=> (\E i \in 1..Len(entries) : entries[i].topic = t)
       /\ \A i \in 1..Len(entries) :
            \E k \in 1..n : rendered[k].kind = "entry" /\ rendered[k].entry = i
       /\ \A k \in 1..n :
            rendered[k].kind = "entry"
            => SectionOf(k) = entries[rendered[k].entry].topic

\* C31 (as stated): render puts the topic sections in the fixed order, omits the
\* topics without an entry, places every entry under its own topic, and within a
\* section the entries come in their input order.
C31_SectionsKeepInputOrder ==
    runState = "done"
    => /\ RenderedByTopic
       /\ \A a, b \in 1..Len(rendered) :
            (a < b /\ rendered[a].kind = "entry" /\ rendered[b].kind = "entry"
                   /\ SectionOf(a) = SectionOf(b))
            => rendered[a].entry <= rendered[b].entry

\* C31 (amended): render puts the topic sections in the fixed order, omits the topics
\* without an entry, places every entry under its own topic, and the entries come in
\* their input order within every section other than Papers and within every subtopic
\* group of the Papers section (the groups themselves are ordered by label).
C31_GroupsKeepInputOrder ==
    runState = "done"
    => /\ RenderedByTopic
       /\ \A a, b \in 1..Len(rendered) :
            (a < b /\ rendered[a].kind = "entry" /\ rendered[b].kind = "entry"
                   /\ GroupOf(a) = GroupOf(b))
            => rendered[a].entry < rendered[b].entry

\* a document with a Papers section whose subtopic groups reverse the input order of
\* two papers, and the section of another topic
C31_Witness ==
    /\ runState = "done"
    /\ \E a, b \in 1..Len(rendered) :
         /\ a < b
         /\ rendered[a].kind = "entry" /\ rendered[b].kind = "entry"
         /\ SectionOf(a) = "Papers" /\ SectionOf(b) = "Papers"
         /\ rendered[a].entry > rendered[b].entry
    /\ \E k \in 1..Len(rendered) : rendered[k].kind = "topic" /\ rendered[k].label # "Papers"

----------------------------------------------------------------------------
(* Claims about the failure path of execute_pipeline_task (Spec).           *)

\* C32: when the executor raises, or persisting the result raises (before the row is
\* written or after it), execute_pipeline_task leaves the task failed with the
\* exception's text as error and progress processed = 0, failed = total_urls = the
\* number of requested URLs, and it returns instead of raising.
C32_FailureRecordedNotRaised ==
    [][\A t \in TaskIds :
         LET Recorded(error) ==
                 /\ tasks'[t].status = "failed"
                 /\ tasks'[t].error = error
                 /\ tasks'[t].progress =
                      [total_urls |-> jobUrls[t], processed |-> 0, failed |-> jobUrls[t]]
                 /\ pc'[t] = "returned"
         IN /\ ExecuteRaises(t) => Recorded("executor error")
            /\ PersistRaisesEarly(t) => Recorded("persist error")
            /\ HandlePersistFailure(t) => Recorded("persist error")]_vars

\* a task of two URLs whose result was written and whose persistence then raised has
\* been recorded as failed, beside a task whose executor raised
C32_Witness ==
    \E t, u \in TaskIds :
        /\ pc[t] = "returned" /\ tasks[t].status = "failed"
        /\ tasks[t].error = "persist error" /\ tasks[t].markdown_content = "doc"
        /\ tasks[t].progress = TaskProgress(2, 0, 2)
        /\ pc[u] = "returned" /\ tasks[u].error = "executor error"

------------------------------------------------------------

----------------------------------------------------------------------------
(* One call of classify on one article, by a classifier that may hold a     *)
(* cached topic (SpecRules).                                                 *)

\* the articles classified: any URL with a text of no marker, a paper keyword, the
\* source-hosting marker or a release marker
RuleArticles ==
    {[NoArticle EXCEPT !.url = u, !.text = x] :
        u \in ClassifyUrls, x \in TextKinds \cup {{"arxiv"}, {"github.com"}, {"release"}}}

\* classify(article) on the article at hand
RuleClassify(reply) ==
    /\ article # NoArticle
    /\ article.source = "none"
    /\ ClassifyCall(article, reply)

\* a classifier without a provider, or with one and an empty cache, or with one and
\* the topic an earlier call cached for a URL no host rule matches
InitRules ==
    /\ TasksIdle
    /\ manifest = <<>>
    /\ loaded = EmptyLoadResult
    /\ cursor = 0
    /\ stage = "none"
    /\ article \in RuleArticles
    /\ result = EmptyResult
    /\ runState = "idle"
    /\ log = <<>>
    /\ ExtractIdle
    /\ llmConfigured \in BOOLEAN
    /\ tcCache \in {[u \in ClassifyUrls |-> "None"]}
                   \cup {[u \in ClassifyUrls |-> IF u = v THEN "Blogs" ELSE "None"] :
                           v \in {w \in ManifestUrls : llmConfigured
                                    /\ _classify_with_rules([NoArticle EXCEPT !.url = w]) = "None"}}
    /\ tcCalls = [u \in ClassifyUrls |-> IF tcCache[u] = "None" THEN 0 ELSE 1]
    /\ StreamIdle
    /\ StoreIdle
    /\ IoIdle

NextRules ==
    \E reply \in ClassifyReplies :
        RuleClassify(reply)
            /\ UNCHANGED <<taskVars, manifest, llmConfigured, loaded, cursor, stage, result,
                           runState, log, exVars, streamVars, storeVars, ioVars>>

SpecRules == InitRules /\ [][NextRules]_vars

\* the topics whose rule an article matches: paper host or paper keyword; open-source
\* host or the source-hosting marker; blog host or a host beginning with blog.; a
\* press/news host or a release/roadmap marker
MatchedRules(art) ==
    LET host == art.url.host
        OnHost(targets) ==
            \E c \in targets, k \in 0..Len(host) :
                Len(host) - k = Len(c) /\ \A i \in 1..Len(c) : host[k + i] = c[i]
    IN {t \in {"Papers"} : OnHost(PAPER_DOMAINS) \/ art.text \cap {"arxiv", "iclr", "neurips"} # {}}
       \cup {t \in {"OpenSource"} : OnHost(OPEN_SOURCE_DOMAINS) \/ "github.com" \in art.text}
       \cup {t \in {"Blogs"} : OnHost(BLOG_DOMAINS) \/ (Len(host) > 1 /\ host[1] = "blog")}
       \cup {t \in {"EngineeringProductBusiness"} :
               \/ \E i \in 1..Len(host) : host[i] \in {"press", "news", "newsroom"}
               \/ art.text \cap {"release", "roadmap"} # {}}

\* C33: the rules are tried in the order Papers, OpenSource, Blogs,
\* EngineeringProductBusiness and the first that matches gives the topic; when a rule
\* matches classify makes no provider call; the topic is Unknown only when no rule
\* matches and no provider gave a topic for the URL.
C33_FirstRuleWinsWithoutProvider ==
    [][\A reply \in ClassifyReplies :
         RuleClassify(reply)
         => LET matched == MatchedRules(article)
                order == <<"Papers", "OpenSource", "Blogs", "EngineeringProductBusiness">>
            IN /\ \A k \in 1..4 :
                    (order[k] \in matched /\ \A j \in 1..(k - 1) : order[j] \notin matched)
                    => article'.topic = order[k]
               /\ matched # {} => tcCalls' = tcCalls /\ tcCache' = tcCache
               /\ (article' # NoArticle /\ article'.topic = "Unknown")
                  => /\ matched = {}
                     /\ ~llmConfigured \/ tcCache'[article.url] = "None"]_vars

\* an article on an open-source host whose text has a paper keyword was classified
\* Papers by a classifier that has a provider, without any provider call
C33_Witness ==
    /\ llmConfigured
    /\ article.url.host = <<"github", "com">>
    /\ "arxiv" \in article.text
    /\ article.topic = "Papers"
    /\ \A u \in ClassifyUrls : tcCalls[u] = 0

----------------------------------------------------------------------------
(* Claims about the client's Authorization header (SpecFetch).              *)

\* C34 (as stated): a client drops its Authorization header at most once; a 401
\* answer to a request that carried the header makes the client anonymous and the
\* same fetch then makes another request, without the header; an anonymous client
\* never carries the header again, and a 401 it receives is an ordinary failure.
C34_HeaderDroppedOnceThenRetried ==
    [][LET answered == Len(jina'.responses) = Len(jina.responses) + 1
           unauthorized == answered /\ jina'.responses[Len(jina'.responses)].code = 401
       IN /\ jina'.drops <= 1
          /\ ~jina.header => ~jina'.header
          /\ (unauthorized /\ jina.header)
             => ~jina'.header /\ jina'.drops = jina.drops + 1 /\ jina'.state = "looping"
          /\ (unauthorized /\ ~jina.header)
             => jina'.last_error = "HTTPStatusError" /\ jina'.drops = jina.drops]_vars

----------------------------------------------------------------------------
(* newsletter.metadata.extractor: the repositories of the record extract    *)
(* returns (SpecRepos). A URL is its host and its path segments.            *)

\* largest number of provider candidates, and of URLs in the article text
MaxRepos == 2

RepoUrl(domain, parts) == [domain |-> domain, parts |-> parts]

\* the URLs of the model: a GitHub repository, the same with .git and with a deeper
\* path, a Hugging Face dataset and model, and a page elsewhere
RepoUrls ==
    {RepoUrl("github.com", <<"o", "r">>), RepoUrl("github.com", <<"o", "r.git">>),
     RepoUrl("github.com", <<"o", "r", "tree", "main">>),
     RepoUrl("huggingface.co", <<"datasets", "o", "n">>),
     RepoUrl("huggingface.co", <<"o", "n">>), RepoUrl("example.com", <<"x">>)}

\* the candidates a provider reply may carry: a URL and the provider it names
RepoCandidates ==
    {[url |-> u, provider |-> "github"] : u \in {v \in RepoUrls : v.domain = "github.com"}}
    \cup {[url |-> RepoUrl("huggingface.co", <<"datasets", "o", "n">>), provider |-> "hf"],
          [url |-> RepoUrl("example.com", <<"x">>), provider |-> "website"]}

\* str.removesuffix(".git") on the segments of the model
RemoveGitSuffix(part) == IF part = "r.git" THEN "r" ELSE part

\* _ParsedUrl.github_repo / huggingface_repo: the repository URL a URL points into
\* (NoUrl when it points into none)
RepositoryOf(u) ==
    CASE u.domain = "github.com" /\ Len(u.parts) >= 2 ->
           RepoUrl("github.com", <<u.parts[1], RemoveGitSuffix(u.parts[2])>>)
      [] u.domain = "huggingface.co" /\ Len(u.parts) >= 3
            /\ u.parts[1] \in {"datasets", "models", "spaces"} ->
           RepoUrl("huggingface.co", <<u.parts[1], u.parts[2], RemoveGitSuffix(u.parts[3])>>)
      [] u.domain = "huggingface.co" /\ Len(u.parts) >= 2
            /\ u.parts[1] \notin {"datasets", "models", "spaces"} ->
           RepoUrl("huggingface.co", <<u.parts[1], RemoveGitSuffix(u.parts[2])>>)
      [] OTHER -> NoUrl

\* _resolve_huggingface_provider
HuggingFaceProvider(u) ==
    IF u.parts # <<>> /\ u.parts[1] = "datasets" THEN "huggingface-dataset"
    ELSE "huggingface-model"

\* _normalize_provider on the provider names of the model ("None": ignored)
_normalize_provider(provider, u) ==
    CASE provider = "github" -> "github"
      [] provider = "hf" -> HuggingFaceProvider(u)
      [] OTHER -> "None"

HasUrl(references, u) == \E i \in 1..Len(references) : references[i].url = u

\* _detect_repositories: the repository URL of each URL found in the text, once each
RECURSIVE _detect_repositories(_, _)
_detect_repositories(text, references) ==
    IF text = <<>> THEN references
    ELSE LET repo == RepositoryOf(Head(text)) IN
         _detect_repositories(Tail(text),
            IF repo = NoUrl \/ HasUrl(references, repo) THEN references
            ELSE Append(references,
                        [url |-> repo, origin |-> "scan",
                         provider |-> IF repo.domain = "github.com" THEN "github"
                                      ELSE HuggingFaceProvider(Head(text))]))

\* the loop of _add_repository_references: the candidates of a known provider, with
\* the URL as the provider gave it, once per URL
RECURSIVE ProviderReferences(_, _)
ProviderReferences(candidates, references) ==
    IF candidates = <<>> THEN references
    ELSE LET repo == Head(candidates)
             provider == _normalize_provider(repo.provider, repo.url)
         IN ProviderReferences(Tail(candidates),
               IF provider = "None" \/ HasUrl(references, repo.url) THEN references
               ELSE Append(references,
                           [url |-> repo.url, origin |-> "llm", provider |-> provider]))

\* _add_repository_references: the scan of the text stands in when no candidate is kept
_add_repository_references(candidates, text) ==
    LET references == ProviderReferences(candidates, <<>>) IN
    IF references = <<>> THEN _detect_repositories(text, <<>>) ELSE references

\* the else branch of _enrich_with_detections: scanned repositories whose URL is not
\* among the record's are appended
RECURSIVE AppendDetected(_, _)
AppendDetected(references, detected) ==
    IF detected = <<>> THEN references
    ELSE AppendDetected(IF HasUrl(references, Head(detected).url) THEN references
                        ELSE Append(references, Head(detected)),
                        Tail(detected))

_enrich_with_detections(references, text) ==
    IF references = <<>> THEN _detect_repositories(text, <<>>)
    ELSE AppendDetected(references, _detect_repositories(text, <<>>))

\* extract(article), as far as the record's repositories go
ExtractRepositories ==
    /\ repoCall.state = "called"
    /\ repoCall' =
         [repoCall EXCEPT
            !.state = "returned",
            !.repositories =
               _enrich_with_detections(
                  _add_repository_references(repoCall.candidates, repoCall.text),
                  repoCall.text)]

InitRepos ==
    /\ TasksIdle
    /\ PipeIdle
    /\ ExtractIdle
    /\ ClassifyIdle
    /\ StreamIdle
    /\ StoreIdle
    /\ JinaIdle
    /\ rendered = <<>>
    /\ twin = NoTwin
    /\ executor = NoExecutor
    /\ repoCall \in {[NoRepoCall EXCEPT !.candidates = c, !.text = x, !.state = "called"] :
                       c \in UNION {[1..n -> RepoCandidates] : n \in 0..MaxRepos},
                       x \in UNION {[1..n -> RepoUrls] : n \in 0..MaxRepos}}

NextRepos ==
    ExtractRepositories
        /\ UNCHANGED <<taskVars, pipeVars, exVars, tcVars, streamVars, storeVars, jina, rendered,
                       twin, executor>>

SpecRepos == InitRepos /\ [][NextRepos]_vars

\* C35 (as stated): in the record extract returns, every repository URL is a
\* canonical repository URL (github.com/owner/repo or huggingface.co/[category/]
\* owner/name, without .git), no two repositories have the same canonical URL, and
\* the repositories the provider supplied are all kept, ahead of those the scan adds.
C35_RepositoriesCanonicalAndUnique ==
    repoCall.state = "returned"
    => LET refs == repoCall.repositories
           supplied == ProviderReferences(repoCall.candidates, <<>>)
       IN /\ \A i \in 1..Len(refs) : RepositoryOf(refs[i].url) = refs[i].url
          /\ \A i, j \in 1..Len(refs) :
                i # j => RepositoryOf(refs[i].url) # RepositoryOf(refs[j].url)
          /\ Len(supplied) <= Len(refs)
          /\ \A i \in 1..Len(supplied) : refs[i] = supplied[i]

----------------------------------------------------------------------------
(* An InMemoryTaskStore and a SQLiteTaskStore given the same sequence of     *)
(* calls (SpecTwin). `tasks` holds the rows of the first, twin.rows those of *)
(* the second; the n-th task created has the same place in both.             *)

\* create on both stores
TwinCreate(id) ==
    /\ tasks[id].status = "absent"
    /\ tasks' = [tasks EXCEPT ![id] = NewRecord(1)]
    /\ twin' = [rows |-> [twin.rows EXCEPT ![id] = NewRecord(1)],
                memory |-> NewRecord(1), sqlite |-> NewRecord(1)]
    /\ UNCHANGED <<storeKind, pc, jobUrls>>

\* get on both stores: the row, or None
TwinGet(id) ==
    /\ twin' = [twin EXCEPT
                  !.memory = IF tasks[id].status = "absent" THEN "None" ELSE tasks[id],
                  !.sqlite = IF twin.rows[id].status = "absent" THEN "None"
                             ELSE twin.rows[id]]
    /\ UNCHANGED <<storeKind, tasks, pc, jobUrls>>

\* the same mark_* call on both stores: KeyError for an id the store does not hold,
\* else the row written and returned
TwinMark(id, op) ==
    LET inMemory == MarkRecIn("memory", op, tasks[id])
        inSqlite == MarkRecIn("sqlite", op, twin.rows[id])
    IN /\ tasks' = IF tasks[id].status = "absent" THEN tasks
                   ELSE [tasks EXCEPT ![id] = inMemory]
       /\ twin' = [rows |-> IF twin.rows[id].status = "absent" THEN twin.rows
                            ELSE [twin.rows EXCEPT ![id] = inSqlite],
                   memory |-> IF tasks[id].status = "absent" THEN "KeyError" ELSE inMemory,
                   sqlite |-> IF twin.rows[id].status = "absent" THEN "KeyError"
                              ELSE inSqlite]
       /\ UNCHANGED <<storeKind, pc, jobUrls>>

InitTwin ==
    /\ TasksIdle
    /\ PipeIdle
    /\ ExtractIdle
    /\ ClassifyIdle
    /\ StreamIdle
    /\ StoreIdle
    /\ JinaIdle
    /\ rendered = <<>>
    /\ repoCall = NoRepoCall
    /\ twin = [rows |-> [t \in TaskIds |-> NoTask], memory |-> "none", sqlite |-> "none"]
    /\ executor = NoExecutor

twinRest == <<pipeVars, exVars, tcVars, streamVars, storeVars, jina, rendered, repoCall,
              executor>>

NextTwin ==
    \/ \E id \in TaskIds : TwinCreate(id) /\ UNCHANGED twinRest
    \/ \E id \in TaskIds : TwinGet(id) /\ UNCHANGED twinRest
    \/ \E id \in TaskIds, op \in MarkOps : TwinMark(id, op) /\ UNCHANGED twinRest

SpecTwin == InitTwin /\ [][NextTwin]_vars

\* C36 (as stated): after any sequence of create / get / mark_* calls made on both
\* stores, the last call returned the same from both (a record with the same status,
\* progress, markdown_content, metadata, error and completed_at set or unset, or
\* not-found from both), and both hold the same record for every task.
C36_StoresAnswerAlike ==
    /\ twin.memory = twin.sqlite
    /\ \A id \in TaskIds : tasks[id] = twin.rows[id]


\* ---------------------------------------------------------------------
\* Fields of a task record against its status
\* (task_store.py 49-112 and 194-259, service.py 15-79)
\* ---------------------------------------------------------------------

\* C37: in every reachable state the fields of a task record agree with its
\* status: a pending or processing task has no error, no markdown_content
\* and no metadata; a failed task has a non-null error; a completed task
\* has a null error.
C37_FieldsAgreeWithStatus ==
    \A t \in TaskIds :
        /\ tasks[t].status \in {"pending", "processing"}
           => /\ tasks[t].error = "null"
              /\ tasks[t].markdown_content = "null"
              /\ tasks[t].metadata = "null"
        /\ tasks[t].status = "failed" => tasks[t].error # "null"
        /\ tasks[t].status = "completed" => tasks[t].error = "null"


\* ---------------------------------------------------------------------
\* Progress of a task completed from a run's result
\* (progress.py 11-18, pipeline_executor.py 32-56, builder.py 52-83,
\* url_loader.py 65-94)
\* ---------------------------------------------------------------------

\* C38: for a task completed from the result of run over the requested URLs,
\* every requested URL is accounted for in the progress: processed + failed =
\* total_urls = the number of requested URLs, processed = entries + duplicates
\* and failed = fetch/extraction failures + invalid URLs.
C38_CompletedProgressAccountsForAll ==
    tasks[PipelineTask].status = "completed" =>
        LET progress == tasks[PipelineTask].progress
        IN /\ progress.total_urls = Len(manifest)
           /\ progress.processed + progress.failed = progress.total_urls
           /\ progress.processed = Len(result.entries) + Len(result.skipped_urls)
           /\ progress.failed = Len(result.failed_urls) + Len(result.invalid_urls)

\* C38 witness: a completed task of three URLs, one an entry, one a duplicate or
\* a failure, one invalid
C38_Witness ==
    /\ tasks[PipelineTask].status = "completed"
    /\ Len(manifest) = 3
    /\ Len(result.entries) = 1
    /\ Len(result.skipped_urls) + Len(result.failed_urls) = 1
    /\ Len(result.invalid_urls) = 1
    /\ tasks[PipelineTask].progress = TaskProgress(3, 1 + Len(result.skipped_urls),
                                                   1 + Len(result.failed_urls))


----------------------------------------------------------------------------
(* generate_newsletter step by step: the record is stored, then the job is *)
(* dispatched, and the worker may start as soon as the job is published    *)
(* (SpecDispatch).                                                          *)

\* mutant: create returns the record without having committed the row
StoredByCreateUncommitted(url_count) == NoTask

\* TaskStore.create: the row the store holds when create returns (the insert is
\* done under the lock, or committed, before the return)
StoredByCreate(url_count) == NewRecord(url_count)

\* generate_newsletter, first statement: record = task_store.create(url_count=n);
\* jobUrls is the request's URL list the handler goes on to dispatch
StoreRecord(t, n) ==
    /\ pc[t] = "none"
    /\ tasks[t].status = "absent"
    /\ tasks' = [tasks EXCEPT ![t] = StoredByCreate(n)]
    /\ jobUrls' = [jobUrls EXCEPT ![t] = n]
    /\ pc' = [pc EXCEPT ![t] = "created"]
    /\ UNCHANGED storeKind

\* dispatcher.dispatch returned: delay published the job (a worker may take it at
\* once; with task_always_eager the job runs before delay returns)
DispatchOk(t) ==
    /\ pc[t] = "created"
    /\ pc' = [pc EXCEPT ![t] = "queued"]
    /\ UNCHANGED <<storeKind, tasks, jobUrls>>

\* dispatcher.dispatch raised (the broker refused the job): no job exists and the
\* handler ends with the exception
DispatchRaises(t) ==
    /\ pc[t] = "created"
    /\ pc' = [pc EXCEPT ![t] = "dispatch_raised"]
    /\ UNCHANGED <<storeKind, tasks, jobUrls>>

\* execute_pipeline_task, first statement, for a published job: mark_processing
\* updates the row, or _update raises KeyError (not found) out of the job
DispatchedWorkerStart(t) ==
    /\ pc[t] = "queued"
    /\ IF tasks[t].status = "absent"
       THEN /\ pc' = [pc EXCEPT ![t] = "not_found"]
            /\ UNCHANGED <<storeKind, tasks, jobUrls>>
       ELSE WorkerStart(t)

InitDispatch == Init

NextDispatch ==
    \/ \E t \in TaskIds, n \in 1..MaxUrls :
         StoreRecord(t, n) /\ UNCHANGED <<pipeVars, exVars, auxVars>>
    \/ \E t \in TaskIds : DispatchOk(t) /\ UNCHANGED <<pipeVars, exVars, auxVars>>
    \/ \E t \in TaskIds : DispatchRaises(t) /\ UNCHANGED <<pipeVars, exVars, auxVars>>
    \/ \E t \in TaskIds :
         DispatchedWorkerStart(t) /\ UNCHANGED <<pipeVars, exVars, auxVars>>
    \/ \E t \in TaskIds : ExecuteRaises(t) /\ UNCHANGED <<pipeVars, exVars, auxVars>>
    \/ \E t \in TaskIds, res \in StubResults :
         PersistOk(t, res) /\ UNCHANGED <<pipeVars, exVars, auxVars>>
    \/ \E t \in TaskIds : PersistRaisesEarly(t) /\ UNCHANGED <<pipeVars, exVars, auxVars>>
    \/ \E t \in TaskIds, res \in StubResults :
         PersistCommitsThenRaises(t, res) /\ UNCHANGED <<pipeVars, exVars, auxVars>>
    \/ \E t \in TaskIds : HandlePersistFailure(t) /\ UNCHANGED <<pipeVars, exVars, auxVars>>

SpecDispatch == InitDispatch /\ [][NextDispatch]_vars

\* the id of t was handed to the dispatcher and the dispatcher took the job
Dispatched(t) == pc[t] \notin {"none", "created", "dispatch_raised"}

\* C39: generate stores the record before it dispatches the job: a task whose id
\* was handed to the dispatcher has its record, mark_processing in
\* execute_pipeline_task never fails with not-found, and a task whose dispatch
\* raised stays pending with zero progress.
C39_RecordStoredBeforeDispatch ==
    \A t \in TaskIds :
        /\ Dispatched(t) => tasks[t].status # "absent"
        /\ pc[t] # "not_found"
        /\ pc[t] = "dispatch_raised" => tasks[t] = NewRecord(jobUrls[t])

\* C39 witness: one task was taken by a worker right after its dispatch and is
\* processing, the dispatch of another raised and it is pending
C39_Witness ==
    \E t, u \in TaskIds :
        /\ pc[t] = "running" /\ tasks[t].status = "processing"
        /\ pc[u] = "dispatch_raised" /\ tasks[u].status = "pending"
        /\ tasks[u].progress = TaskProgress(jobUrls[u], 0, 0)


----------------------------------------------------------------------------
(* DefaultPipelineExecutor.execute statement by statement, called by the   *)
(* worker processes one call after another (SpecExec).                      *)

\* mutant: the finally clause leaves the file
UnlinkKeeps(file) == file

\* manifest_path.unlink(missing_ok=True)
Unlink(file) == "removed"

\* a worker calls execute(urls) with n URLs; each call has a temporary file of its own
ExecCall(w, n) ==
    /\ executor[w].pos \in {"idle", "exited"}
    /\ executor' = [executor EXCEPT ![w] = [NoCall EXCEPT !.urls = n, !.pos = "called"]]

\* _write_manifest, called before the try statement: ValueError for no URLs before
\* any file exists; else NamedTemporaryFile(delete=False) creates the file and the
\* URLs are written, or the write raises out of execute
WriteManifest(w, written) ==
    /\ executor[w].pos = "called"
    /\ executor' =
         [executor EXCEPT ![w] =
            IF executor[w].urls = 0
            THEN [@ EXCEPT !.pos = "exited", !.exit = "ValueError"]
            ELSE IF written
            THEN [@ EXCEPT !.pos = "try", !.file = "exists"]
            ELSE [@ EXCEPT !.pos = "exited", !.file = "exists", !.exit = "write_raised"]]

\* the with statement inside try: JinaClient(...) and OpenRouterClient(...) are
\* constructed, or one of the constructors raises
EnterClients(w, outcome) ==
    /\ executor[w].pos = "try"
    /\ executor' =
         [executor EXCEPT ![w] =
            IF outcome = "ok"
            THEN [@ EXCEPT !.pos = "clients"]
            ELSE [@ EXCEPT !.pos = "finally", !.exit = "client_raised"]]

\* return pipeline.run(manifest_path): run returns its result or raises
RunPipeline(w, returns) ==
    /\ executor[w].pos = "clients"
    /\ executor' =
         [executor EXCEPT ![w] =
            [@ EXCEPT !.pos = "finally",
                      !.exit = IF returns THEN "pipeline_returned" ELSE "pipeline_raised"]]

\* the finally clause, then execute returns or re-raises
Finally(w) ==
    /\ executor[w].pos = "finally"
    /\ executor' = [executor EXCEPT ![w] = [@ EXCEPT !.pos = "exited",
                                                      !.file = Unlink(@)]]

InitExec ==
    /\ TasksIdle
    /\ PipeIdle
    /\ ExtractIdle
    /\ ClassifyIdle
    /\ StreamIdle
    /\ StoreIdle
    /\ JinaIdle
    /\ rendered = <<>>
    /\ repoCall = NoRepoCall
    /\ twin = NoTwin
    /\ executor = NoExecutor

execRest == <<taskVars, pipeVars, exVars, tcVars, streamVars, storeVars, jina, rendered,
              repoCall, twin>>

NextExec ==
    \/ \E w \in ExecWorkers, n \in 0..MaxUrls : ExecCall(w, n) /\ UNCHANGED execRest
    \/ \E w \in ExecWorkers, written \in BOOLEAN :
         WriteManifest(w, written) /\ UNCHANGED execRest
    \/ \E w \in ExecWorkers, outcome \in {"ok", "jina_raised", "llm_raised"} :
         EnterClients(w, outcome) /\ UNCHANGED execRest
    \/ \E w \in ExecWorkers, returns \in BOOLEAN : RunPipeline(w, returns) /\ UNCHANGED execRest
    \/ \E w \in ExecWorkers : Finally(w) /\ UNCHANGED execRest

SpecExec == InitExec /\ [][NextExec]_vars

\* C40: when execute has exited because the pipeline returned, the pipeline raised
\* or constructing a client raised, the temporary manifest file it wrote is removed;
\* for an empty URL list it exits with ValueError and never created a file.
C40_ManifestRemovedOnExit ==
    \A w \in ExecWorkers :
        executor[w].pos = "exited" =>
            /\ executor[w].exit \in {"pipeline_returned", "pipeline_raised", "client_raised"}
               => executor[w].file = "removed"
            /\ executor[w].urls = 0
               => executor[w].exit = "ValueError" /\ executor[w].file = "absent"

\* C40 witness: one call ended by the pipeline raising with its file removed, another
\* ended with ValueError for no URLs and without a file
C40_Witness ==
    \E w, v \in ExecWorkers :
        /\ executor[w].pos = "exited" /\ executor[w].exit = "pipeline_raised"
        /\ executor[w].urls > 0 /\ executor[w].file = "removed"
        /\ executor[v].pos = "exited" /\ executor[v].exit = "ValueError"
        /\ executor[v].urls = 0 /\ executor[v].file = "absent"

====
